---- MODULE Spec2Model ----
(***************************************************************************)
(* nbkit: package database (PkgDb), dependency resolution (get_subgraph,   *)
(* check_subgraph_integrity), removal conflict check (check_remove), the   *)
(* already-installed filter (purge_already_installed) and the install and  *)
(* remove pipelines (install_handler, remove_handler).                     *)
(*                                                                         *)
(* A HashMap is a TLA+ function whose DOMAIN is the set of its keys; the   *)
(* iteration order of a HashMap is unspecified, so every loop over one is  *)
(* a nondeterministic choice of order.  A Vec is a sequence.               *)
(***************************************************************************)
EXTENDS Integers, Sequences, FiniteSets, TLC

(***************************************************************************)
(* Bounds of the model.                                                    *)
(***************************************************************************)
\* longest selection (to_remove / select) handed to an operation
MaxSel == 2
\* largest number of dependency edges in one generated PkgDb
MaxEdges == 2

\* package names; "B" may be absent from a PkgDb that names it as dependency
Names == {"A", "B", "C"}

\* semantic versions major.minor.patch
Versions == {<<1, 0, 0>>, <<1, 1, 0>>}

(***************************************************************************)
(* semver::Version ordering and semver::VersionReq matching.               *)
(***************************************************************************)
\* Version::cmp, lexicographic on (major, minor, patch)
VLess(a, b) ==
    \/ a[1] < b[1]
    \/ a[1] = b[1] /\ a[2] < b[2]
    \/ a[1] = b[1] /\ a[2] = b[2] /\ a[3] < b[3]

\* a VersionReq: one comparator, or the requirement matching every version
AnyReq == [op |-> "*", ver |-> <<0, 0, 0>>]

Req(o, v) == [op |-> o, ver |-> v]

\* VersionReq::matches
Matches(req, v) ==
    CASE req.op = "*"  -> TRUE
      [] req.op = "==" -> v = req.ver
      [] req.op = ">=" -> v = req.ver \/ VLess(req.ver, v)
      [] req.op = "<=" -> v = req.ver \/ VLess(v, req.ver)
      [] req.op = ">"  -> VLess(req.ver, v)
      [] req.op = "<"  -> VLess(v, req.ver)
      [] req.op = "^"  -> /\ v = req.ver \/ VLess(req.ver, v)
                          /\ IF req.ver[1] > 0 THEN v[1] = req.ver[1]
                             ELSE IF req.ver[2] > 0
                             THEN v[1] = 0 /\ v[2] = req.ver[2]
                             ELSE v = req.ver

(***************************************************************************)
(* PkgInfo and SetInfo.                                                    *)
(***************************************************************************)
\* Option<SetInfo>::None, the set_info of a meta-package
NoSetInfo == [kind |-> "none"]

\* SetInfo::Universe(InfoUniverse { location })
InfoUniverse(loc) == [kind |-> "universe", location |-> loc]

\* SetInfo::Local(InfoLocal { paths })
InfoLocal(ps) == [kind |-> "local", paths |-> ps]

\* PkgInfo::from; depends is the Vec of (name, requirement), empty for None
PkgInfo(v, deps, si) == [version |-> v, depends |-> deps, set_info |-> si]

\* PkgInfo::is_meta
is_meta(info) == info.set_info = NoSetInfo

\* a dependency edge (DependencyWrap)
Dep(n, r) == [name |-> n, req |-> r]

\* the keys of a HashMap
Keys(m) == DOMAIN m

\* HashMap::new
EmptyMap == [n \in {} |-> NoSetInfo]

\* HashMap::insert (upsert)
MapInsert(m, k, v) == [n \in (DOMAIN m) \cup {k} |-> IF n = k THEN v ELSE m[n]]

\* HashMap::remove
MapRemove(m, k) == [n \in (DOMAIN m) \ {k} |-> m[n]]

\* the names that occur in a Vec of names
Range(s) == {s[i] : i \in 1..Len(s)}

\* the orders in which the elements of S can be listed or visited
RECURSIVE Perms(_)
Perms(S) ==
    IF S = {} THEN {<<>>}
    ELSE UNION {{<<e>> \o p : p \in Perms(S \ {e})} : e \in S}

(***************************************************************************)
(* Error values (NbError, NbpmError).                                      *)
(***************************************************************************)
\* NbError::PkgNotFound(name)
PkgNotFound(n) == [kind |-> "PkgNotFound", name |-> n]

\* NbError::MissingDependency(dependency, dependent)
MissingDependency(d, p) == [kind |-> "MissingDependency", dep |-> d, pkg |-> p]

\* NbError::BrokenDependency(dependency, requirement, actual version, dependent)
BrokenDependency(d, r, v, p) ==
    [kind |-> "BrokenDependency", dep |-> d, req |-> r, ver |-> v, pkg |-> p]

\* NbError::RemoveBreaksPkg(to_remove, breaks)
RemoveBreaksPkg(d, p) == [kind |-> "RemoveBreaksPkg", dep |-> d, pkg |-> p]

\* Result::Ok(value) and Result::Err(error)
Ok(v) == [ok |-> TRUE, val |-> v]

Err(e) == [ok |-> FALSE, err |-> e]

\* the return value of a call that has not returned yet
Running == [ok |-> FALSE, err |-> [kind |-> "running"]]

\* PushDeps mutated: a dependency is pushed unless it is pending, whether
\* it is resolved or not
RECURSIVE PushDepsUnlessPending(_, _, _)
PushDepsUnlessPending(deps, pend, res) ==
    IF deps = <<>> THEN pend
    ELSE LET name == Head(deps).name
         IN  PushDepsUnlessPending(Tail(deps),
                      IF name \notin Range(pend)
                      THEN Append(pend, name) ELSE pend,
                      res)

(***************************************************************************)
(* PkgDb::get_subgraph and PkgDb::check_subgraph_integrity.                *)
(***************************************************************************)
\* get_subgraph, the loop over the dependencies of the popped package:
\* a dependency is pushed unless it is pending or resolved already
RECURSIVE PushDeps(_, _, _)
PushDeps(deps, pend, res) ==
    IF deps = <<>> THEN pend
    ELSE LET name == Head(deps).name
         IN  PushDeps(Tail(deps),
                      IF name \notin Range(pend) /\ name \notin Keys(res)
                      THEN Append(pend, name) ELSE pend,
                      res)

\* get_subgraph, one turn of the while loop: pop the last pending name,
\* look it up, push its dependencies, insert it into resolved
PopStep(pkgdata, pend, res) ==
    LET current == pend[Len(pend)]
        rest    == SubSeq(pend, 1, Len(pend) - 1)
    IN  IF current \notin Keys(pkgdata)
        THEN [failed |-> TRUE, err |-> PkgNotFound(current),
              pending |-> rest, resolved |-> res]
        ELSE [failed |-> FALSE, err |-> PkgNotFound(current),
              pending |-> PushDeps(pkgdata[current].depends, rest, res),
              resolved |-> MapInsert(res, current, pkgdata[current])]

\* NodeError mutated: BrokenDependency carries the version of the dependent
\* in place of the version of the dependency
RECURSIVE NodeErrorDependentVersion(_, _, _)
NodeErrorDependentVersion(subgraph, node_name, deps) ==
    IF deps = <<>> THEN {}
    ELSE LET d == Head(deps)
         IN  IF d.name \notin Keys(subgraph)
             THEN {MissingDependency(d.name, node_name)}
             ELSE IF ~Matches(d.req, subgraph[d.name].version)
             THEN {BrokenDependency(d.name, d.req, subgraph[node_name].version,
                                    node_name)}
             ELSE NodeErrorDependentVersion(subgraph, node_name, Tail(deps))

\* NodeError mutated: the version of a present dependency is not checked
NodeErrorPresenceOnly(subgraph, node_name, deps) ==
    {MissingDependency(deps[i].name, node_name) :
        i \in {j \in 1..Len(deps) : deps[j].name \notin Keys(subgraph)}}

\* the first dependency of a node (in the order of its Vec) that the subgraph
\* does not satisfy, as the error check_subgraph_integrity returns for it
RECURSIVE NodeError(_, _, _)
NodeError(subgraph, node_name, deps) ==
    IF deps = <<>> THEN {}
    ELSE LET d == Head(deps)
         IN  IF d.name \notin Keys(subgraph)
             THEN {MissingDependency(d.name, node_name)}
             ELSE IF ~Matches(d.req, subgraph[d.name].version)
             THEN {BrokenDependency(d.name, d.req, subgraph[d.name].version,
                                    node_name)}
             ELSE NodeError(subgraph, node_name, Tail(deps))

\* check_subgraph_integrity: the results it can return; the nodes are visited
\* in HashMap order, so the error of any offending node can be the one returned
check_subgraph_integrity(subgraph) ==
    LET errs == UNION {NodeError(subgraph, n, subgraph[n].depends) :
                       n \in Keys(subgraph)}
    IN  IF errs = {} THEN {Ok(subgraph)} ELSE {Err(e) : e \in errs}

\* Lookup mutated: a pending name the PkgDb does not hold is skipped
RECURSIVE LookupSkippingAbsent(_, _, _)
LookupSkippingAbsent(pkgdata, names, res) ==
    IF names = <<>> THEN Ok(res)
    ELSE IF Head(names) \notin Keys(pkgdata)
    THEN LookupSkippingAbsent(pkgdata, Tail(names), res)
    ELSE LookupSkippingAbsent(pkgdata, Tail(names),
                MapInsert(res, Head(names), pkgdata[Head(names)]))

\* get_subgraph with follow_deps = false: a lookup of the selected names,
\* failing on the first one (in the order of select) that the PkgDb lacks
RECURSIVE Lookup(_, _, _)
Lookup(pkgdata, names, res) ==
    IF names = <<>> THEN Ok(res)
    ELSE IF Head(names) \notin Keys(pkgdata)
    THEN Err(PkgNotFound(Head(names)))
    ELSE Lookup(pkgdata, Tail(names),
                MapInsert(res, Head(names), pkgdata[Head(names)]))

\* get_subgraph with follow_deps = true: the while loop run to its end
RECURSIVE Closure(_, _, _)
Closure(pkgdata, pend, res) ==
    IF pend = <<>> THEN check_subgraph_integrity(res)
    ELSE LET st == PopStep(pkgdata, pend, res)
         IN  IF st.failed THEN {Err(st.err)}
             ELSE Closure(pkgdata, st.pending, st.resolved)

\* Option<&[&str]>: Some(names) and None
Some(names) == [some |-> TRUE, names |-> names]

None == [some |-> FALSE, names |-> <<>>]

\* the pending Vec mutated into the first selected name alone
InitialPendingFirstOnly(pkgdata, select) ==
    IF select.some
    THEN {IF select.names = <<>> THEN <<>> ELSE <<Head(select.names)>>}
    ELSE Perms(Keys(pkgdata))

\* the pending Vec mutated into "every key" whatever the selection
InitialPendingAllKeys(pkgdata, select) == Perms(Keys(pkgdata))

\* get_subgraph, the initial value of pending: the selection, or every key of
\* the PkgDb (in HashMap order) when there is no selection
InitialPending(pkgdata, select) ==
    IF select.some THEN {select.names} ELSE Perms(Keys(pkgdata))

\* get_subgraph(select, follow_deps): the results it can return
get_subgraph(pkgdata, select, follow) ==
    UNION {IF ~follow THEN {Lookup(pkgdata, pend, EmptyMap)}
           ELSE Closure(pkgdata, pend, EmptyMap) :
           pend \in InitialPending(pkgdata, select)}

(***************************************************************************)
(* PkgDb::check_remove.                                                    *)
(***************************************************************************)
\* PkgConflict mutated: a dependent that is itself pending still conflicts
RECURSIVE PkgConflictDependentNotExcluded(_, _, _, _)
PkgConflictDependentNotExcluded(pkgdata, pend, pkg_name, deps) ==
    IF deps = <<>> THEN {}
    ELSE LET d == Head(deps)
         IN  IF d.name \in pend /\ Matches(d.req, pkgdata[d.name].version)
             THEN {RemoveBreaksPkg(d.name, pkg_name)}
             ELSE PkgConflictDependentNotExcluded(pkgdata, pend, pkg_name, Tail(deps))

\* PkgConflict mutated: only the first dependency of a package is looked at
PkgConflictFirstDepOnly(pkgdata, pend, pkg_name, deps) ==
    IF deps = <<>> THEN {}
    ELSE LET d == Head(deps)
         IN  IF /\ d.name \in pend
                /\ Matches(d.req, pkgdata[d.name].version)
                /\ pkg_name \notin pend
             THEN {RemoveBreaksPkg(d.name, pkg_name)}
             ELSE {}

\* check_remove, the loops over the dependencies of one package of the PkgDb
\* and over pending: the first dependency that names a pending package with a
\* satisfying version, when the package itself is not pending
RECURSIVE PkgConflict(_, _, _, _)
PkgConflict(pkgdata, pend, pkg_name, deps) ==
    IF deps = <<>> THEN {}
    ELSE LET d == Head(deps)
         IN  IF /\ d.name \in pend
                /\ Matches(d.req, pkgdata[d.name].version)
                /\ pkg_name \notin pend
             THEN {RemoveBreaksPkg(d.name, pkg_name)}
             ELSE PkgConflict(pkgdata, pend, pkg_name, Tail(deps))

\* check_remove, the first loop: the first name of to_remove the PkgDb lacks
RECURSIVE FirstAbsent(_, _)
FirstAbsent(pkgdata, names) ==
    IF names = <<>> THEN {}
    ELSE IF Head(names) \notin Keys(pkgdata) THEN {Head(names)}
    ELSE FirstAbsent(pkgdata, Tail(names))

\* check_remove mutated: only the presence of the names of to_remove is
\* checked, the dependents are not looked at
check_removePresenceOnly(pkgdata, to_remove) ==
    LET absent == FirstAbsent(pkgdata, to_remove)
    IN  IF absent # {} THEN {Err(PkgNotFound(n)) : n \in absent}
        ELSE {Ok("unit")}

\* check_remove(to_remove): the results it can return; the packages of the
\* PkgDb are visited in HashMap order
check_remove(pkgdata, to_remove) ==
    LET absent == FirstAbsent(pkgdata, to_remove)
        pend   == Range(to_remove)
        errs   == UNION {PkgConflict(pkgdata, pend, n, pkgdata[n].depends) :
                         n \in Keys(pkgdata)}
    IN  IF absent # {} THEN {Err(PkgNotFound(n)) : n \in absent}
        ELSE IF errs = {} THEN {Ok("unit")}
        ELSE {Err(e) : e \in errs}

(***************************************************************************)
(* The filesystem, remove_path and remove_local_pkg_files.                 *)
(***************************************************************************)
\* a path: the directory it is anchored at and the path below it
Path(base, name) == [base |-> base, name |-> name]

\* the paths below an anchor that are directories; every other path is a file
DirNames == {"usr"}

\* the directory a path lies in ("" for the anchor itself)
ParentName(name) == IF name \in {"usr/a", "usr/b", "usr/x"} THEN "usr" ELSE ""

\* Path::is_dir and Path::is_file, on the set fs of the existing paths
is_dir(fs, p) == p \in fs /\ p.name \in DirNames

is_file(fs, p) == p \in fs /\ p.name \notin DirNames

\* fs::read_dir(path).count()
EntryCount(fs, p) ==
    Cardinality({q \in fs : q.base = p.base /\ ParentName(q.name) = p.name})

\* remove_path mutated: fs::remove_dir is called on a directory whatever it
\* holds, and fails on one that is not empty
remove_pathAlwaysRemoveDir(fs, faults, p) ==
    IF is_file(fs, p)
    THEN IF p \in faults.locked THEN [fs |-> fs, ok |-> FALSE]
         ELSE [fs |-> fs \ {p}, ok |-> TRUE]
    ELSE IF is_dir(fs, p)
    THEN IF EntryCount(fs, p) # 0 \/ p \in faults.locked
         THEN [fs |-> fs, ok |-> FALSE]
         ELSE [fs |-> fs \ {p}, ok |-> TRUE]
    ELSE [fs |-> fs, ok |-> TRUE]

\* remove_path: the filesystem it leaves and whether it returned Ok; fs::remove_file
\* and fs::remove_dir fail on the paths of faults.locked, fs::read_dir on the
\* directories of faults.unreadable
remove_path(fs, faults, p) ==
    IF is_file(fs, p)
    THEN IF p \in faults.locked THEN [fs |-> fs, ok |-> FALSE]
         ELSE [fs |-> fs \ {p}, ok |-> TRUE]
    ELSE IF is_dir(fs, p)
    THEN IF p \in faults.unreadable THEN [fs |-> fs, ok |-> FALSE]
         ELSE IF EntryCount(fs, p) = 0
         THEN IF p \in faults.locked THEN [fs |-> fs, ok |-> FALSE]
              ELSE [fs |-> fs \ {p}, ok |-> TRUE]
         ELSE [fs |-> fs, ok |-> TRUE]
    ELSE [fs |-> fs, ok |-> TRUE]

\* NbpmError::CannotRemove(paths that could not be removed)
CannotRemove(paths) == [kind |-> "CannotRemove", paths |-> paths]

\* NbpmError::CannotRemovePkgs(names and errors of the packages)
CannotRemovePkgs(errs) == [kind |-> "CannotRemovePkgs", pkgs |-> errs]

\* remove_local_pkg_files, the second loop: the deferred directories
RECURSIVE RemoveDirs(_, _, _, _)
RemoveDirs(dirs, fs, faults, errs) ==
    IF dirs = <<>> THEN [fs |-> fs, errors |-> errs]
    ELSE LET r == remove_path(fs, faults, Head(dirs))
         IN  RemoveDirs(Tail(dirs), r.fs, faults,
                        IF r.ok THEN errs ELSE Append(errs, Head(dirs)))

\* remove_local_pkg_files, the first loop: files are removed, directories are
\* deferred
RECURSIVE RemoveFiles(_, _, _, _, _)
RemoveFiles(paths, fs, faults, dirs, errs) ==
    IF paths = <<>> THEN RemoveDirs(dirs, fs, faults, errs)
    ELSE LET p == Head(paths)
         IN  IF is_dir(fs, p)
             THEN RemoveFiles(Tail(paths), fs, faults, Append(dirs, p), errs)
             ELSE LET r == remove_path(fs, faults, p)
                  IN  RemoveFiles(Tail(paths), r.fs, faults, dirs,
                                  IF r.ok THEN errs ELSE Append(errs, p))

\* remove_local_pkg_files(info): the filesystem it leaves and its result; a
\* Universe record reaches unimplemented!() and the process panics
remove_local_pkg_files(info, fs, faults) ==
    IF info.set_info.kind = "none" THEN [fs |-> fs, panic |-> FALSE, res |-> Ok("unit")]
    ELSE IF info.set_info.kind = "universe"
    THEN [fs |-> fs, panic |-> TRUE, res |-> Ok("unit")]
    ELSE LET r == RemoveFiles(info.set_info.paths, fs, faults, <<>>, <<>>)
         IN  [fs |-> r.fs, panic |-> FALSE,
              res |-> IF r.errors = <<>> THEN Ok("unit")
                      ELSE Err(CannotRemove(r.errors))]

(***************************************************************************)
(* The PkgDbs and selections the operations are run on.                    *)
(***************************************************************************)
\* the version requirements of the generated dependency edges
DbReqs == {Req(">=", <<1, 0, 0>>), Req(">=", <<1, 1, 0>>)}

\* the dependency edges a generated PkgDb can hold
EdgeU == {[from |-> f, dep |-> Dep(t, r)] : f \in Names, t \in Names, r \in DbReqs}

\* the version of a name the PkgDb has no record of
NoVersion == <<>>

\* the subsets of S with at most k elements
RECURSIVE KSubsets(_, _)
KSubsets(S, k) ==
    IF k = 0 THEN {{}}
    ELSE LET prev == KSubsets(S, k - 1)
         IN  prev \cup {s \cup {e} : s \in prev, e \in S}

\* the Vecs of at most k names
RECURSIVE SeqsUpTo(_, _)
SeqsUpTo(S, k) ==
    IF k = 0 THEN {<<>>}
    ELSE LET prev == SeqsUpTo(S, k - 1)
         IN  prev \cup {Append(s, e) : s \in prev, e \in S}

\* the depends Vec of package n, given the edges in the order they are listed
RECURSIVE DepsOf(_, _)
DepsOf(n, edges) ==
    IF edges = <<>> THEN <<>>
    ELSE IF Head(edges).from = n
    THEN <<Head(edges).dep>> \o DepsOf(n, Tail(edges))
    ELSE DepsOf(n, Tail(edges))

\* the pkgdata of the PkgDb with the given versions, edges and set_info
GenPkgData(vers, edges, si) ==
    [n \in {m \in Names : vers[m] # NoVersion} |->
        PkgInfo(vers[n], DepsOf(n, edges), si[n])]

\* the selections handed to get_subgraph
Selections == {None} \cup {Some(names) : names \in SeqsUpTo(Names, MaxSel)}

\* every record of the repository index is a Universe record
UniverseInfo == [n \in Names |-> InfoUniverse("bin")]

\* the set_info of the installed packages: A and B share the directory usr,
\* C is a meta-package
LocalInfo(base) ==
    [n \in Names |->
        CASE n = "A" -> InfoLocal(<<Path(base, "usr/a"), Path(base, "usr")>>)
          [] n = "B" -> InfoLocal(<<Path(base, "usr"), Path(base, "usr/b")>>)
          [] OTHER   -> NoSetInfo]

\* the paths the records of a Local PkgDb list
OwnedPaths(pkgdata) ==
    UNION {IF pkgdata[n].set_info.kind = "local"
           THEN Range(pkgdata[n].set_info.paths) ELSE {} : n \in Keys(pkgdata)}

(***************************************************************************)
(* State.                                                                  *)
(***************************************************************************)
VARIABLES
    pc,         \* position in the operation that is running
    db,         \* the PkgDb the operation is called on: [set, pkgdata]
    args,       \* the arguments of the call
    pending,    \* get_subgraph: Vec of the names pending to be processed
    resolved,   \* get_subgraph: HashMap of the resolved packages
    graph,      \* the subgraph a handler works on (HashMap name -> &PkgInfo)
    todo,       \* the keys of graph the handler's loop has not visited yet
    errors,     \* remove_handler: Vec of the (package, error) collected
    fs,         \* the paths that exist on the filesystem
    faults,     \* the paths on which the filesystem calls fail
    start,      \* db and fs as they were when the operation was called
    downl_files,    \* install_handler: Vec of the downloaded packages
    cur,            \* install_handler: position of the for loop in downl_files
    installed_pkgs, \* install_handler: Vec of the names inserted into local_db
    status,     \* install_handler: Ok, or the error that stopped the loop
    work_curr,  \* NBPM_WORK_CURR: the extracted files and the nbinfo.toml read from it
    fetched,    \* the packages whose archive has been downloaded in this run
    extracted,  \* the packages whose archive has been extracted in this run
    copied,     \* the paths install_pkg_files has copied in this run
    text,       \* the string a serializer has written and a parser reads
    result      \* the value the call returned, Running before it returns

resolveVars == <<pending, resolved>>

handlerVars == <<graph, todo, errors>>

envVars == <<fs, faults, start>>

installVars == <<downl_files, cur, installed_pkgs, status, work_curr, fetched, extracted, copied>>

vars == <<pc, db, args, resolveVars, handlerVars, envVars, installVars, text, result>>

\* no string has been written
NoText == <<>>

\* NBPM_WORK_CURR after clean_work_curr: no file, no nbinfo.toml
EmptyWorkDir == [files |-> {}, info |-> EmptyMap]

\* the variables of install_handler, when another operation runs
InstallIdle ==
    /\ downl_files = <<>> /\ cur = 1 /\ installed_pkgs = <<>> /\ status = Ok("unit")
    /\ work_curr = EmptyWorkDir /\ fetched = {} /\ extracted = {} /\ copied = {}

\* no filesystem call fails
NoFaults == [locked |-> {}, unreadable |-> {}]

\* the variables of get_subgraph, when another operation runs
ResolveIdle == pending = <<>> /\ resolved = EmptyMap

\* the variables of the handlers, before the handler has set them
HandlerIdle == graph = EmptyMap /\ todo = {} /\ errors = <<>>

\* an operation that reads no file
EnvIdle == fs = {} /\ faults = NoFaults /\ start = [db |-> db, fs |-> fs]

(***************************************************************************)
(* get_subgraph, statement by statement.                                   *)
(***************************************************************************)
\* the call get_subgraph(Some(select), follow_deps) on a generated PkgDb
InitResolve ==
    /\ pc = "get_subgraph"
    /\ \E vers \in [Names -> Versions \cup {NoVersion}] :
       \E E \in KSubsets(EdgeU, MaxEdges) :
       \E edges \in Perms(E) :
          db = [set |-> "universe", pkgdata |-> GenPkgData(vers, edges, UniverseInfo)]
    /\ \E sel \in Selections, follow \in BOOLEAN :
          args = [select |-> sel, follow_deps |-> follow]
    /\ ResolveIdle /\ HandlerIdle /\ EnvIdle /\ InstallIdle
    /\ result = Running
    /\ text = NoText

\* pending is set from the selection; without follow_deps the pending names
\* are looked up and the call returns
GsEnter ==
    /\ pc = "get_subgraph"
    /\ pending' \in InitialPending(db.pkgdata, args.select)
    /\ resolved' = EmptyMap
    /\ IF ~args.follow_deps
       THEN /\ result' = Lookup(db.pkgdata, pending', EmptyMap)
            /\ pc' = "done"
       ELSE /\ result' = result
            /\ pc' = "while"
    /\ UNCHANGED <<db, args, handlerVars, envVars, installVars>>
    /\ UNCHANGED text

\* one turn of the while loop
GsPop ==
    /\ pc = "while"
    /\ pending # <<>>
    /\ LET st == PopStep(db.pkgdata, pending, resolved)
       IN  /\ pending' = st.pending
           /\ resolved' = st.resolved
           /\ IF st.failed
              THEN result' = Err(st.err) /\ pc' = "done"
              ELSE result' = result /\ pc' = "while"
    /\ UNCHANGED <<db, args, handlerVars, envVars, installVars>>
    /\ UNCHANGED text

\* pending is empty: the integrity check decides the result
GsCheck ==
    /\ pc = "while"
    /\ pending = <<>>
    /\ result' \in check_subgraph_integrity(resolved)
    /\ pc' = "done"
    /\ UNCHANGED <<db, args, resolveVars, handlerVars, envVars, installVars>>
    /\ UNCHANGED text

NextResolve == GsEnter \/ GsPop \/ GsCheck

SpecResolve == InitResolve /\ [][NextResolve]_vars

\* get_subgraph runs to its return: a step that can be taken is taken
SpecResolveFair == SpecResolve /\ WF_vars(NextResolve)

(***************************************************************************)
(* check_remove, called on its own.                                        *)
(***************************************************************************)
\* the call check_remove(to_remove) on a generated Local PkgDb
InitCheckRemove ==
    /\ pc = "check_remove"
    /\ \E vers \in [Names -> Versions \cup {NoVersion}] :
       \E E \in KSubsets(EdgeU, MaxEdges) :
       \E edges \in Perms(E) :
          db = [set |-> "local", pkgdata |-> GenPkgData(vers, edges, LocalInfo("/"))]
    /\ \E names \in SeqsUpTo(Names, MaxSel) : args = [to_remove |-> names]
    /\ ResolveIdle /\ HandlerIdle /\ EnvIdle /\ InstallIdle
    /\ result = Running
    /\ text = NoText

\* pkgdb.rs:228-261
CrCall ==
    /\ pc = "check_remove"
    /\ result' \in check_remove(db.pkgdata, args.to_remove)
    /\ pc' = "done"
    /\ UNCHANGED <<db, args, resolveVars, handlerVars, envVars, installVars>>
    /\ UNCHANGED text

NextCheckRemove == CrCall

SpecCheckRemove == InitCheckRemove /\ [][NextCheckRemove]_vars

(***************************************************************************)
(* remove_handler, step by step.                                           *)
(***************************************************************************)
\* the filesystem failures a removal is run under
RemoveFaults ==
    {NoFaults,
     [locked |-> {Path("/", "usr/a")}, unreadable |-> {}],
     [locked |-> {Path("/", "usr/a"), Path("/", "usr/b")}, unreadable |-> {}]}

\* the call remove_handler(to_remove, recursive, ask_user, check_conflicts,
\* local_db) on a generated Local PkgDb whose files are on the filesystem
InitRemove ==
    /\ pc = "remove_handler"
    /\ \E vers \in [Names -> Versions \cup {NoVersion}] :
       \E E \in KSubsets(EdgeU, MaxEdges) :
       \E edges \in Perms(E) :
          db = [set |-> "local", pkgdata |-> GenPkgData(vers, edges, LocalInfo("/"))]
    /\ \E names \in SeqsUpTo(Names, MaxSel), rec \in BOOLEAN, ask \in BOOLEAN,
          chk \in BOOLEAN :
          args = [to_remove |-> names, recursive |-> rec, ask_user |-> ask,
                  check_conflicts |-> chk]
    /\ fs = OwnedPaths(db.pkgdata)
    /\ faults \in RemoveFaults
    /\ start = [db |-> db, fs |-> fs]
    /\ ResolveIdle /\ HandlerIdle /\ InstallIdle
    /\ result = Running
    /\ text = NoText

\* remove.rs:15, the removal target is resolved; an error is returned by `?`
RhResolve ==
    /\ pc = "remove_handler"
    /\ \E r \in get_subgraph(db.pkgdata, Some(args.to_remove), args.recursive) :
          IF r.ok
          THEN /\ graph' = r.val
               /\ pc' = IF args.ask_user THEN "ask" ELSE "check"
               /\ result' = result
          ELSE /\ graph' = graph
               /\ pc' = "done"
               /\ result' = r
    /\ UNCHANGED <<db, args, resolveVars, todo, errors, envVars, installVars>>
    /\ UNCHANGED text

\* NbError::CmdChildErr and the other I/O errors returned as TypeErr
IoError(what) == [kind |-> "io", what |-> what]

\* RhAsk mutated: whatever the user types, the removal goes on
RhAskNeverCancels ==
    /\ pc = "ask"
    /\ \E line \in {"", "y", "Y", "n", "error"} :
          IF line = "error"
          THEN pc' = "done" /\ result' = Err(IoError("read_line"))
          ELSE pc' = "check" /\ result' = result
    /\ UNCHANGED <<db, args, resolveVars, handlerVars, envVars, installVars>>
    /\ UNCHANGED text

\* remove.rs:17-35, the confirmation prompt: the line the user types, or the
\* error of read_line
RhAsk ==
    /\ pc = "ask"
    /\ \E line \in {"", "y", "Y", "n", "error"} :
          IF line = "error"
          THEN pc' = "done" /\ result' = Err(IoError("read_line"))
          ELSE IF line # "" /\ line # "y" /\ line # "Y"
          THEN pc' = "done" /\ result' = Ok("unit")
          ELSE pc' = "check" /\ result' = result
    /\ UNCHANGED <<db, args, resolveVars, handlerVars, envVars, installVars>>
    /\ UNCHANGED text

\* remove.rs:37-41, the conflict check over the keys of graph
RhCheck ==
    /\ pc = "check"
    /\ IF args.check_conflicts
       THEN \E names \in Perms(Keys(graph)) :
            \E r \in check_remove(db.pkgdata, names) :
               IF r.ok
               THEN pc' = "remove" /\ result' = result /\ todo' = Keys(graph)
               ELSE pc' = "done" /\ result' = r /\ todo' = todo
       ELSE pc' = "remove" /\ result' = result /\ todo' = Keys(graph)
    /\ UNCHANGED <<db, args, resolveVars, graph, errors, envVars, installVars>>
    /\ UNCHANGED text

\* RhRemovePkg mutated: the loop ends at the first package whose removal
\* fails (break after the push)
RhRemovePkgAbort ==
    /\ pc = "remove"
    /\ todo # {}
    /\ \E pkg_name \in todo :
          LET r == remove_local_pkg_files(graph[pkg_name], fs, faults)
          IN  /\ todo' = IF r.res.ok THEN todo \ {pkg_name} ELSE {}
              /\ fs' = r.fs
              /\ IF r.panic
                 THEN pc' = "panic" /\ errors' = errors
                 ELSE /\ pc' = pc
                      /\ errors' = IF r.res.ok THEN errors
                                   ELSE Append(errors, <<pkg_name, r.res.err>>)
    /\ UNCHANGED <<db, args, resolveVars, graph, faults, start, installVars, result>>
    /\ UNCHANGED text

\* remove.rs:44-51, one turn of the loop over graph: the files of one package
\* are removed, its error is collected
RhRemovePkg ==
    /\ pc = "remove"
    /\ todo # {}
    /\ \E pkg_name \in todo :
          LET r == remove_local_pkg_files(graph[pkg_name], fs, faults)
          IN  /\ todo' = todo \ {pkg_name}
              /\ fs' = r.fs
              /\ IF r.panic
                 THEN pc' = "panic" /\ errors' = errors
                 ELSE /\ pc' = pc
                      /\ errors' = IF r.res.ok THEN errors
                                   ELSE Append(errors, <<pkg_name, r.res.err>>)
    /\ UNCHANGED <<db, args, resolveVars, graph, faults, start, installVars, result>>
    /\ UNCHANGED text

\* remove.rs:53-57, the result of remove_handler
RhReturn ==
    /\ pc = "remove"
    /\ todo = {}
    /\ result' = IF errors = <<>> THEN Ok("unit") ELSE Err(CannotRemovePkgs(errors))
    /\ pc' = "done"
    /\ UNCHANGED <<db, args, resolveVars, handlerVars, envVars, installVars>>
    /\ UNCHANGED text

NextRemove == RhResolve \/ RhAsk \/ RhCheck \/ RhRemovePkg \/ RhReturn

SpecRemove == InitRemove /\ [][NextRemove]_vars

\* the paths of a Local PkgDb in which B lists the directory of its file, or
\* its file alone
BatchInfo(lists_dir) ==
    [LocalInfo("/") EXCEPT !["B"] =
        IF lists_dir THEN @ ELSE InfoLocal(<<Path("/", "usr/b")>>)]

\* the directories the files of a set of paths lie in
ParentDirs(paths) ==
    {Path(p.base, ParentName(p.name)) : p \in {q \in paths : ParentName(q.name) # ""}}

\* the call remove_handler(to_remove, recursive, ask_user, check_conflicts,
\* local_db) on a Local PkgDb without dependency edges whose records list
\* their directory or not, every file removable
InitRemoveBatch ==
    /\ pc = "remove_handler"
    /\ \E vers \in [Names -> Versions \cup {NoVersion}], lists_dir \in BOOLEAN :
          db = [set |-> "local",
                pkgdata |-> GenPkgData(vers, <<>>, BatchInfo(lists_dir))]
    /\ \E names \in SeqsUpTo(Names, MaxSel), rec \in BOOLEAN, ask \in BOOLEAN,
          chk \in BOOLEAN :
          args = [to_remove |-> names, recursive |-> rec, ask_user |-> ask,
                  check_conflicts |-> chk]
    /\ fs = OwnedPaths(db.pkgdata) \cup ParentDirs(OwnedPaths(db.pkgdata))
    /\ faults = NoFaults
    /\ start = [db |-> db, fs |-> fs]
    /\ ResolveIdle /\ HandlerIdle /\ InstallIdle
    /\ result = Running
    /\ text = NoText

SpecRemoveBatch == InitRemoveBatch /\ [][NextRemove]_vars

(***************************************************************************)
(* install_handler, step by step.                                          *)
(***************************************************************************)
\* a path of an nbinfo.toml: relative to the package root, or absolute
RelPath(name) == [abs |-> FALSE, name |-> name]

\* a path of nbinfo.toml written from the root directory
AbsPath(name) == [abs |-> TRUE, name |-> name]

\* Path::join(prefix, p): an absolute p replaces the prefix
Join(prefix, p) == IF p.abs THEN Path("/", p.name) ELSE Path(prefix, p.name)

\* InfoLocal::set_path_prefix
RECURSIVE set_path_prefix(_, _)
set_path_prefix(paths, prefix) ==
    IF paths = <<>> THEN <<>>
    ELSE <<Join(prefix, Head(paths))>> \o set_path_prefix(Tail(paths), prefix)

\* the file a package ships
FileOf(n) == IF n = "A" THEN "usr/a" ELSE "usr/b"

\* the archive <name>.tar.xz of the repository: its files and its nbinfo.toml;
\* a "listed" archive lists every file it ships, an "unlisted" one ships the
\* file usr/x that its nbinfo.toml does not list, the nbinfo.toml of a
\* "misnamed" one is keyed by another name, that of a "universe" one holds
\* the Universe record of the index, that of an "absolute" one lists its
\* file by an absolute path
Archive(n, kind, info) ==
    [files |-> {FileOf(n)} \cup (IF kind = "unlisted" THEN {"usr/x"} ELSE {}),
     info  |-> MapInsert(EmptyMap, IF kind = "misnamed" THEN "Z" ELSE n,
                   PkgInfo(info.version, info.depends,
                           IF kind = "universe" THEN InfoUniverse("bin")
                           ELSE InfoLocal(<<IF kind = "absolute"
                                              THEN AbsPath(FileOf(n))
                                              ELSE RelPath(FileOf(n)),
                                            RelPath("usr")>>)))]

ArchiveKinds == {"listed", "unlisted"}

\* the archives a repository may serve
AnyArchiveKinds == ArchiveKinds \cup {"misnamed", "universe", "absolute"}

\* the steps of the pipeline that can fail
FailSteps == {"download", "extract", "read", "copy", "clean"}

\* the records of the repository index: A and B are Universe records, C is a
\* meta-package
IndexInfo ==
    [n \in Names |-> IF n = "C" THEN NoSetInfo ELSE InfoUniverse("bin")]

\* NbpmError::CleanUnSuccessfulInstallation
CleanUnSuccessfulInstallation == [kind |-> "CleanUnSuccessfulInstallation"]

\* NbpmError::DirtyUnSuccessfulInstallation(paths that could not be removed)
DirtyUnSuccessfulInstallation(paths) ==
    [kind |-> "DirtyUnSuccessfulInstallation", paths |-> paths]

\* the step `step` fails for package n in this run
Fails(step, n) == args.fail = [step |-> step, pkg |-> n]

\* the call install_handler(graph, config, local_db): graph holds records of
\* the repository index, local_db the packages installed under config.root
InitInstall ==
    /\ pc = "download"
    /\ \E vers \in [Names -> {NoVersion, <<1, 0, 0>>}] :
          db = [set |-> "local",
                pkgdata |-> GenPkgData(vers, <<>>, LocalInfo("/mnt"))]
    /\ \E vers \in [Names -> Versions \cup {NoVersion}] :
          graph = GenPkgData(vers, <<>>, IndexInfo)
    /\ \E kinds \in [{"A", "B"} -> ArchiveKinds] :
       \E fail \in {[step |-> "none", pkg |-> "A"]} \cup
                   {[step |-> st, pkg |-> n] : st \in FailSteps, n \in {"A", "B"}} :
          args = [root |-> "/mnt", kinds |-> kinds, fail |-> fail]
    /\ fs = OwnedPaths(db.pkgdata)
    /\ faults \in {NoFaults, [locked |-> {Path("/mnt", "usr/a")}, unreadable |-> {}]}
    /\ start = [db |-> db, fs |-> fs]
    /\ todo = Keys(graph)
    /\ errors = <<>>
    /\ ResolveIdle /\ InstallIdle
    /\ result = Running
    /\ text = NoText

\* IhFetch mutated: a failed download is skipped like a meta-package and the
\* loop goes on
IhFetchSkipsFailed ==
    /\ pc = "download"
    /\ todo # {}
    /\ \E name \in todo :
          /\ todo' = todo \ {name}
          /\ IF graph[name].set_info.kind = "none" \/ Fails("download", name)
             THEN UNCHANGED <<pc, result, fetched, downl_files>>
             ELSE IF graph[name].set_info.kind = "local"
             THEN pc' = "panic" /\ UNCHANGED <<result, fetched, downl_files>>
             ELSE /\ fetched' = fetched \cup {name}
                  /\ downl_files' = Append(downl_files, name)
                  /\ UNCHANGED <<pc, result>>
    /\ UNCHANGED <<db, args, resolveVars, graph, errors, envVars, cur, installed_pkgs,
                   status, work_curr, extracted, copied>>
    /\ UNCHANGED text

\* utils.rs:186-212, one turn of the loop of download_pkgs_to_workdir: a
\* meta-package is skipped, a Local record reaches unimplemented!(), a failed
\* download is returned by `?` through install_handler
IhFetch ==
    /\ pc = "download"
    /\ todo # {}
    /\ \E name \in todo :
          /\ todo' = todo \ {name}
          /\ IF graph[name].set_info.kind = "none"
             THEN UNCHANGED <<pc, result, fetched, downl_files>>
             ELSE IF graph[name].set_info.kind = "local"
             THEN pc' = "panic" /\ UNCHANGED <<result, fetched, downl_files>>
             ELSE IF Fails("download", name)
             THEN /\ pc' = "done"
                  /\ result' = Err(IoError("download"))
                  /\ UNCHANGED <<fetched, downl_files>>
             ELSE /\ fetched' = fetched \cup {name}
                  /\ downl_files' = Append(downl_files, name)
                  /\ UNCHANGED <<pc, result>>
    /\ UNCHANGED <<db, args, resolveVars, graph, errors, envVars, cur, installed_pkgs,
                   status, work_curr, extracted, copied>>
    /\ UNCHANGED text

\* utils.rs:213 and install.rs:36-39: every package is downloaded, the
\* install loop starts
IhDownloaded ==
    /\ pc = "download"
    /\ todo = {}
    /\ pc' = "extract"
    /\ UNCHANGED <<db, args, resolveVars, handlerVars, envVars, installVars, result>>
    /\ UNCHANGED text

\* IhExtract mutated: a failed extraction records the error and the loop goes
\* on with the next package (continue for break)
IhExtractContinue ==
    /\ pc = "extract"
    /\ cur <= Len(downl_files)
    /\ LET pkg_name == downl_files[cur]
           ar == Archive(pkg_name, args.kinds[pkg_name], graph[pkg_name])
       IN  IF Fails("extract", pkg_name)
           THEN /\ status' = Err(IoError("tar"))
                /\ pc' = "extract"
                /\ cur' = cur + 1
                /\ UNCHANGED <<work_curr, extracted>>
           ELSE /\ work_curr' = [files |-> work_curr.files \cup ar.files,
                                 info |-> ar.info]
                /\ extracted' = extracted \cup {pkg_name}
                /\ pc' = "insert"
                /\ UNCHANGED <<status, cur>>
    /\ UNCHANGED <<db, args, resolveVars, handlerVars, envVars, downl_files,
                   installed_pkgs, fetched, copied, result>>
    /\ UNCHANGED text

\* install.rs:39-45, the archive of the next package is extracted into
\* NBPM_WORK_CURR, over whatever the directory holds
IhExtract ==
    /\ pc = "extract"
    /\ cur <= Len(downl_files)
    /\ LET pkg_name == downl_files[cur]
           ar == Archive(pkg_name, args.kinds[pkg_name], graph[pkg_name])
       IN  IF Fails("extract", pkg_name)
           THEN /\ status' = Err(IoError("tar"))
                /\ pc' = "meta"
                /\ UNCHANGED <<work_curr, extracted>>
           ELSE /\ work_curr' = [files |-> work_curr.files \cup ar.files,
                                 info |-> ar.info]
                /\ extracted' = extracted \cup {pkg_name}
                /\ pc' = "insert"
                /\ UNCHANGED status
    /\ UNCHANGED <<db, args, resolveVars, handlerVars, envVars, downl_files, cur,
                   installed_pkgs, fetched, copied, result>>
    /\ UNCHANGED text

\* install.rs:47-75, nbinfo.toml is read and deserialized, the record of the
\* package is taken out of it (unwrap), its paths are prefixed with the root,
\* and it is inserted into local_db
IhInsert ==
    /\ pc = "insert"
    /\ LET pkg_name == downl_files[cur]
       IN  IF Fails("read", pkg_name)
           THEN /\ status' = Err(IoError("nbinfo"))
                /\ pc' = "meta"
                /\ UNCHANGED <<db, installed_pkgs>>
           ELSE IF pkg_name \notin Keys(work_curr.info)
           THEN pc' = "panic" /\ UNCHANGED <<db, installed_pkgs, status>>
           ELSE LET info == work_curr.info[pkg_name]
                IN  IF info.set_info.kind = "universe"
                    THEN pc' = "panic" /\ UNCHANGED <<db, installed_pkgs, status>>
                    ELSE /\ db' = [db EXCEPT !.pkgdata = MapInsert(@, pkg_name,
                                 IF info.set_info.kind = "local"
                                 THEN PkgInfo(info.version, info.depends,
                                          InfoLocal(set_path_prefix(
                                              info.set_info.paths, args.root)))
                                 ELSE info)]
                         /\ installed_pkgs' = Append(installed_pkgs, pkg_name)
                         /\ pc' = "copy"
                         /\ UNCHANGED status
    /\ UNCHANGED <<args, resolveVars, handlerVars, envVars, downl_files, cur,
                   work_curr, fetched, extracted, copied, result>>
    /\ UNCHANGED text

\* the paths that copying the files of NBPM_WORK_CURR creates under the root:
\* the files and the directories they lie in
Installed(root, files) ==
    {Path(root, f) : f \in files} \cup
    {Path(root, ParentName(f)) : f \in {g \in files : ParentName(g) # ""}}

\* install_pkg_files, the removal of the files copied before the failure
RECURSIVE UndoCopy(_, _, _, _)
UndoCopy(installed_files, files, flt, cannot_remove) ==
    IF installed_files = <<>> THEN [fs |-> files, cannot_remove |-> cannot_remove]
    ELSE LET r == remove_path(files, flt, Head(installed_files))
         IN  UndoCopy(Tail(installed_files), r.fs, flt,
                      IF r.ok THEN cannot_remove
                      ELSE Append(cannot_remove, Head(installed_files)))

\* install.rs:77-81 and 112-179, install_pkg_files: every file of
\* NBPM_WORK_CURR but nbinfo.toml is copied under the root; when a copy fails
\* the files copied before it are removed again and the Clean or the Dirty
\* error is returned
IhCopy ==
    /\ pc = "copy"
    /\ LET pkg_name == downl_files[cur]
       IN  IF ~Fails("copy", pkg_name)
           THEN /\ fs' = fs \cup Installed(args.root, work_curr.files)
                /\ copied' = copied \cup {Path(args.root, f) : f \in work_curr.files}
                /\ pc' = "clean"
                /\ UNCHANGED status
           ELSE \E failing \in work_curr.files :
                \E before \in SUBSET (work_curr.files \ {failing}) :
                \E installed_files \in Perms({Path(args.root, f) : f \in before}) :
                   LET r == UndoCopy(installed_files,
                                     fs \cup Installed(args.root, before),
                                     faults, <<>>)
                   IN  /\ fs' = r.fs
                       /\ copied' = copied \cup Range(installed_files)
                       /\ status' = IF r.cannot_remove = <<>>
                                    THEN Err(CleanUnSuccessfulInstallation)
                                    ELSE Err(DirtyUnSuccessfulInstallation(
                                                 r.cannot_remove))
                       /\ pc' = "meta"
    /\ UNCHANGED <<db, args, resolveVars, handlerVars, faults, start, downl_files,
                   cur, installed_pkgs, work_curr, fetched, extracted, result>>
    /\ UNCHANGED text

\* IhClean mutated: clean_work_curr returns Ok and leaves the files of the
\* package in NBPM_WORK_CURR
IhCleanKeepsFiles ==
    /\ pc = "clean"
    /\ IF Fails("clean", downl_files[cur])
       THEN /\ status' = Err(IoError("clean_work_curr"))
            /\ pc' = "meta"
            /\ UNCHANGED <<work_curr, cur>>
       ELSE /\ work_curr' = work_curr
            /\ cur' = cur + 1
            /\ pc' = "extract"
            /\ UNCHANGED status
    /\ UNCHANGED <<db, args, resolveVars, handlerVars, envVars, downl_files,
                   installed_pkgs, fetched, extracted, copied, result>>
    /\ UNCHANGED text

\* IhClean mutated: a failed clean_work_curr records the error and the loop
\* goes on with the next package (continue for break)
IhCleanContinue ==
    /\ pc = "clean"
    /\ IF Fails("clean", downl_files[cur])
       THEN /\ status' = Err(IoError("clean_work_curr"))
            /\ cur' = cur + 1
            /\ pc' = "extract"
            /\ UNCHANGED work_curr
       ELSE /\ work_curr' = EmptyWorkDir
            /\ cur' = cur + 1
            /\ pc' = "extract"
            /\ UNCHANGED status
    /\ UNCHANGED <<db, args, resolveVars, handlerVars, envVars, downl_files,
                   installed_pkgs, fetched, extracted, copied, result>>
    /\ UNCHANGED text

\* install.rs:83-87, clean_work_curr, then the next turn of the loop
IhClean ==
    /\ pc = "clean"
    /\ IF Fails("clean", downl_files[cur])
       THEN /\ status' = Err(IoError("clean_work_curr"))
            /\ pc' = "meta"
            /\ UNCHANGED <<work_curr, cur>>
       ELSE /\ work_curr' = EmptyWorkDir
            /\ cur' = cur + 1
            /\ pc' = "extract"
            /\ UNCHANGED status
    /\ UNCHANGED <<db, args, resolveVars, handlerVars, envVars, downl_files,
                   installed_pkgs, fetched, extracted, copied, result>>
    /\ UNCHANGED text

\* the end of the for loop over downl_files
IhLoopEnd ==
    /\ pc = "extract"
    /\ cur > Len(downl_files)
    /\ pc' = "meta"
    /\ UNCHANGED <<db, args, resolveVars, handlerVars, envVars, installVars, result>>
    /\ UNCHANGED text

\* InsertAll mutated: no meta-package is inserted
InsertNone(pkgdata, names, from) == pkgdata

\* HashMap::insert of every record of names into pkgdata
RECURSIVE InsertAll(_, _, _)
InsertAll(pkgdata, names, from) ==
    IF names = {} THEN pkgdata
    ELSE LET n == CHOOSE m \in names : TRUE
         IN  InsertAll(MapInsert(pkgdata, n, from[n]), names \ {n}, from)

\* IhMeta mutated: the meta-packages are inserted only when the loop ended
\* without an error
IhMetaOnSuccess ==
    /\ pc = "meta"
    /\ IF status.ok
       THEN /\ db' = [db EXCEPT !.pkgdata =
                        InsertAll(@, {n \in Keys(graph) : is_meta(graph[n])}, graph)]
            /\ pc' = "done" /\ result' = status
       ELSE pc' = "rollback" /\ result' = result /\ db' = db
    /\ UNCHANGED <<args, resolveVars, handlerVars, envVars, installVars>>
    /\ UNCHANGED text

\* install.rs:90-97, the meta-packages of graph are inserted into local_db;
\* without an error install_handler returns Ok
IhMeta ==
    /\ pc = "meta"
    /\ db' = [db EXCEPT !.pkgdata =
                 InsertAll(@, {n \in Keys(graph) : is_meta(graph[n])}, graph)]
    /\ IF status.ok
       THEN pc' = "done" /\ result' = status
       ELSE pc' = "rollback" /\ result' = result
    /\ UNCHANGED <<args, resolveVars, handlerVars, envVars, installVars>>
    /\ UNCHANGED text

\* remove_local_pkg_files(&installed_graph): the files of every record of the
\* graph are removed; the filesystem it leaves and the packages that failed
RECURSIVE RollbackFiles(_, _, _, _, _)
RollbackFiles(installed_graph, names, files, flt, failed) ==
    IF names = <<>> THEN [fs |-> files, failed |-> failed]
    ELSE LET r == remove_local_pkg_files(installed_graph[Head(names)], files, flt)
         IN  RollbackFiles(installed_graph, Tail(names), r.fs, flt,
                           IF r.res.ok THEN failed
                           ELSE Append(failed, <<Head(names), r.res.err>>))

\* install.rs:99-110, the undo of the installation: the records of
\* installed_pkgs are looked up in local_db and their files removed; an error
\* of the undo is returned by `?`, otherwise the error of the loop is
IhRollback ==
    /\ pc = "rollback"
    /\ LET g == Lookup(db.pkgdata, installed_pkgs, EmptyMap)
       IN  IF ~g.ok
           THEN result' = g /\ fs' = fs
           ELSE \E names \in Perms(Keys(g.val)) :
                   LET r == RollbackFiles(g.val, names, fs, faults, <<>>)
                   IN  /\ fs' = r.fs
                       /\ result' = IF r.failed = <<>> THEN status
                                    ELSE Err(CannotRemovePkgs(r.failed))
    /\ pc' = "done"
    /\ UNCHANGED <<db, args, resolveVars, handlerVars, faults, start, installVars>>
    /\ UNCHANGED text

NextInstall ==
    \/ IhFetch \/ IhDownloaded \/ IhExtract \/ IhInsert \/ IhCopy \/ IhClean
    \/ IhLoopEnd \/ IhMeta \/ IhRollback

SpecInstall == InitInstall /\ [][NextInstall]_vars

\* the call install_handler(graph, config, local_db) on any graph and any
\* archives: the records of graph carry any set_info, local_db is empty
InitInstallAny ==
    /\ pc = "download"
    /\ db = [set |-> "local", pkgdata |-> EmptyMap]
    /\ \E vers \in [Names -> {NoVersion, <<1, 0, 0>>}] :
       \E si \in [Names -> {NoSetInfo, InfoUniverse("bin"), InfoLocal(<<>>)}] :
          /\ si["C"] = NoSetInfo
          /\ graph = GenPkgData(vers, <<>>, si)
    /\ \E kinds \in [{"A", "B"} -> AnyArchiveKinds] :
       \E fail \in {[step |-> "none", pkg |-> "A"]} \cup
                   {[step |-> st, pkg |-> n] : st \in FailSteps, n \in {"A", "B"}} :
          args = [root |-> "/mnt", kinds |-> kinds, fail |-> fail]
    /\ fs = {}
    /\ faults = NoFaults
    /\ start = [db |-> db, fs |-> fs]
    /\ todo = Keys(graph)
    /\ errors = <<>>
    /\ ResolveIdle /\ InstallIdle
    /\ result = Running
    /\ text = NoText

SpecInstallAny == InitInstallAny /\ [][NextInstall]_vars

(***************************************************************************)
(* purge_already_installed (nbpm/utils.rs), called on a target graph and   *)
(* the local PkgDb.                                                        *)
(***************************************************************************)
\* NbpmError::RequiresPkgDowngrade(name, current version, version asked for)
RequiresPkgDowngrade(name, curr_ver, new_ver) ==
    [kind |-> "RequiresPkgDowngrade", name |-> name, curr |-> curr_ver, new |-> new_ver]

\* PkgDb::get_pkg_info, pkgdb.rs:193-196: Some(record) or None
get_pkg_info(pkgdata, name) ==
    IF name \in Keys(pkgdata) THEN Some(pkgdata[name]) ELSE None

\* utils.rs:134-163, the loop over graph.iter() in the order `order`: the
\* names of equal version are collected in not_install, a lower version
\* returns the error at once
RECURSIVE PurgeLoop(_, _, _, _)
PurgeLoop(g, pkgdata, order, not_install) ==
    IF order = <<>> THEN [res |-> Ok("unit"), not_install |-> not_install]
    ELSE LET name == Head(order)
             local_pkg_info == get_pkg_info(pkgdata, name)
         IN  IF ~local_pkg_info.some
             THEN PurgeLoop(g, pkgdata, Tail(order), not_install)
             ELSE LET curr_ver == local_pkg_info.names.version
                      new_ver == g[name].version
                  IN  IF new_ver = curr_ver
                      THEN PurgeLoop(g, pkgdata, Tail(order), Append(not_install, name))
                      ELSE IF VLess(new_ver, curr_ver)
                      THEN [res |-> Err(RequiresPkgDowngrade(name, curr_ver, new_ver)),
                            not_install |-> not_install]
                      ELSE PurgeLoop(g, pkgdata, Tail(order), not_install)

\* purge_already_installed mutated: the second loop is missing, no entry is
\* removed from the graph
purge_already_installedNoRemoval(g, pkgdata, order) ==
    [graph |-> g, res |-> PurgeLoop(g, pkgdata, order, <<>>).res]

\* purge_already_installed mutated: the names of equal version are removed
\* from the graph even when the loop returned the downgrade error
purge_already_installedEagerRemoval(g, pkgdata, order) ==
    LET r == PurgeLoop(g, pkgdata, order, <<>>)
    IN  [graph |-> [n \in Keys(g) \ Range(r.not_install) |-> g[n]], res |-> r.res]

\* utils.rs:129-168: the graph the call leaves and the value it returns, when
\* graph.iter() yields the names in the order `order`
purge_already_installed(g, pkgdata, order) ==
    LET r == PurgeLoop(g, pkgdata, order, <<>>)
    IN  IF ~r.res.ok THEN [graph |-> g, res |-> r.res]
        ELSE [graph |-> [n \in Keys(g) \ Range(r.not_install) |-> g[n]],
              res |-> r.res]

\* a target graph taken from the universe index and a local PkgDb
InitPurge ==
    /\ pc = "purge"
    /\ \E vers \in [Names -> Versions \cup {NoVersion}] :
          db = [set |-> "local", pkgdata |-> GenPkgData(vers, <<>>, LocalInfo("/"))]
    /\ \E vers \in [Names -> Versions \cup {NoVersion}] :
          graph = GenPkgData(vers, <<>>, IndexInfo)
    /\ args = [graph |-> graph]
    /\ todo = {} /\ errors = <<>>
    /\ ResolveIdle /\ EnvIdle /\ InstallIdle
    /\ result = Running
    /\ text = NoText

\* utils.rs:129-168
PgCall ==
    /\ pc = "purge"
    /\ \E order \in Perms(Keys(graph)) :
          LET r == purge_already_installed(graph, db.pkgdata, order)
          IN  graph' = r.graph /\ result' = r.res
    /\ pc' = "done"
    /\ UNCHANGED <<db, args, resolveVars, todo, errors, envVars, installVars>>
    /\ UNCHANGED text

NextPurge == PgCall

SpecPurge == InitPurge /\ [][NextPurge]_vars

(***************************************************************************)
(* install_handler called the way the install command prepares it: the     *)
(* target graph is a closure of the repository index returned by           *)
(* get_subgraph and filtered by purge_already_installed, the installed     *)
(* records have dependency edges of their own.                             *)
(***************************************************************************)
\* the requirements of the edges of the installed records
LocalReqs == {Req(">=", <<1, 0, 0>>), Req("==", <<1, 0, 0>>)}

\* the edges an installed record can hold
EdgeL == {[from |-> f, dep |-> Dep(t, r)] : f \in {"A", "B"}, t \in {"A", "B"},
                                            r \in LocalReqs}

\* a PkgDb holds no edge, or one edge of E
OneEdgeOf(E) == {<<>>} \cup {<<e>> : e \in E}

\* every edge of every record of the map leads to a record of the map whose
\* version matches the requirement
AllEdgesSatisfied(m) ==
    \A n \in Keys(m) : \A i \in 1..Len(m[n].depends) :
        /\ m[n].depends[i].name \in Keys(m)
        /\ Matches(m[n].depends[i].req, m[m[n].depends[i].name].version)

\* install_handler(graph, config, local_db) where local_db satisfies every
\* edge it holds and graph is what get_subgraph(Some(select), true) returned
\* on the repository index, after purge_already_installed(graph, local_db)
InitInstallDeps ==
    /\ pc = "download"
    /\ \E vers \in [Names -> {NoVersion, <<1, 0, 0>>}] :
       \E edges \in OneEdgeOf(EdgeL) :
          /\ db = [set |-> "local",
                   pkgdata |-> GenPkgData(vers, edges, LocalInfo("/mnt"))]
          /\ AllEdgesSatisfied(db.pkgdata)
    /\ \E vers \in [Names -> Versions \cup {NoVersion}] :
       \E edges \in OneEdgeOf(EdgeU) :
       \E name \in Names :
       \E r \in get_subgraph(GenPkgData(vers, edges, IndexInfo), Some(<<name>>), TRUE) :
          /\ r.ok
          /\ \E order \in Perms(Keys(r.val)) :
                LET p == purge_already_installed(r.val, db.pkgdata, order)
                IN  p.res.ok /\ graph = p.graph
    /\ \E fail \in {[step |-> "none", pkg |-> "A"], [step |-> "copy", pkg |-> "A"]} :
          args = [root |-> "/mnt", kinds |-> [n \in {"A", "B"} |-> "listed"],
                  fail |-> fail]
    /\ fs = OwnedPaths(db.pkgdata)
    /\ faults = NoFaults
    /\ start = [db |-> db, fs |-> fs]
    /\ todo = Keys(graph)
    /\ errors = <<>>
    /\ ResolveIdle /\ InstallIdle
    /\ result = Running
    /\ text = NoText

SpecInstallDeps == InitInstallDeps /\ [][NextInstall]_vars

(***************************************************************************)
(* Package reference texts: parse_pkg_str_info (utils/mod.rs) and the      *)
(* serde form of a dependency edge (core/wrappers.rs).  A text is a        *)
(* sequence of tokens: a character, or the digits of one version.          *)
(***************************************************************************)
\* one character of a text (a package name counts as one character)
Ch(c) == [ch |-> c, ver |-> <<>>]

\* Version::to_string, the digits of a version inside a text
VerTok(v) == [ch |-> "", ver |-> v]

\* the versions written in package reference texts
TextVersions == {<<0, 9, 0>>, <<1, 0, 0>>, <<1, 2, 0>>, <<2, 0, 0>>}

\* utils/mod.rs:15, the operators in the order the loop tries them
Operators ==
    << <<Ch("="), Ch("=")>>, <<Ch(">"), Ch("=")>>, <<Ch("<"), Ch("=")>>,
       <<Ch(">")>>, <<Ch("<")>> >>

\* the pattern pat occurs in t at position i
OccursAt(t, pat, i) ==
    /\ i + Len(pat) - 1 <= Len(t)
    /\ \A k \in 1..Len(pat) : t[i + k - 1] = pat[k]

\* str::contains
Contains(t, pat) == \E i \in 1..Len(t) : OccursAt(t, pat, i)

\* the position of the first occurrence of pat in t
FirstAt(t, pat) == CHOOSE i \in 1..Len(t) :
                      /\ OccursAt(t, pat, i)
                      /\ \A j \in 1..(i - 1) : ~OccursAt(t, pat, j)

\* str::split, the first two pieces: the text before the first occurrence of
\* pat, and the text between it and the next occurrence (or the end)
Split(t, pat) ==
    LET i == FirstAt(t, pat)
        rest == SubSeq(t, i + Len(pat), Len(t))
    IN  [first |-> SubSeq(t, 1, i - 1),
         second |-> IF Contains(rest, pat)
                    THEN SubSeq(rest, 1, FirstAt(rest, pat) - 1)
                    ELSE rest]

\* the error of VersionReq::parse
ReqParseError == [kind |-> "ReqParseError"]

\* VersionReq::parse on the texts of one comparator: a version without
\* operator is the caret (compatible) requirement
VersionReq_parse(t) ==
    IF Len(t) = 1 /\ t[1].ver # <<>> THEN Ok(Req("^", t[1].ver))
    ELSE IF t = <<Ch("*")>> THEN Ok(AnyReq)
    ELSE IF Len(t) = 2 /\ t[1] = Ch("=") /\ t[2].ver # <<>> THEN Ok(Req("==", t[2].ver))
    ELSE IF Len(t) = 2 /\ t[1] = Ch("^") /\ t[2].ver # <<>> THEN Ok(Req("^", t[2].ver))
    ELSE IF Len(t) = 2 /\ t[1] = Ch(">") /\ t[2].ver # <<>> THEN Ok(Req(">", t[2].ver))
    ELSE IF Len(t) = 2 /\ t[1] = Ch("<") /\ t[2].ver # <<>> THEN Ok(Req("<", t[2].ver))
    ELSE IF Len(t) = 3 /\ t[1] = Ch(">") /\ t[2] = Ch("=") /\ t[3].ver # <<>>
    THEN Ok(Req(">=", t[3].ver))
    ELSE IF Len(t) = 3 /\ t[1] = Ch("<") /\ t[2] = Ch("=") /\ t[3].ver # <<>>
    THEN Ok(Req("<=", t[3].ver))
    ELSE Err(ReqParseError)

\* VersionReq::to_string
VersionReq_to_string(req) ==
    CASE req.op = "*"  -> <<Ch("*")>>
      [] req.op = "==" -> <<Ch("="), VerTok(req.ver)>>
      [] req.op = "^"  -> <<Ch("^"), VerTok(req.ver)>>
      [] req.op = ">"  -> <<Ch(">"), VerTok(req.ver)>>
      [] req.op = "<"  -> <<Ch("<"), VerTok(req.ver)>>
      [] req.op = ">=" -> <<Ch(">"), Ch("="), VerTok(req.ver)>>
      [] req.op = "<=" -> <<Ch("<"), Ch("="), VerTok(req.ver)>>

\* a Query (String, VersionReq); the name is kept as its text
Query(name, req) == [name |-> name, req |-> req]

\* utils/mod.rs:15-29 from the i-th operator on: the first operator the text
\* contains splits it, the piece after it is parsed without the operator
RECURSIVE ParseFrom(_, _)
ParseFrom(t, i) ==
    IF i > Len(Operators) THEN Ok(Query(t, AnyReq))
    ELSE IF Contains(t, Operators[i])
    THEN LET splitted == Split(t, Operators[i])
             comp_ver == VersionReq_parse(splitted.second)
         IN  IF comp_ver.ok THEN Ok(Query(splitted.first, comp_ver.val))
             ELSE comp_ver
    ELSE ParseFrom(t, i + 1)

\* utils/mod.rs:13-31
parse_pkg_str_info(t) == ParseFrom(t, 1)

\* wrappers.rs:71-78, DependencyWrap::serialize: format!("{}{}", name, req)
DependencyWrap_serialize(q) == q.name \o VersionReq_to_string(q.req)

\* the text of an operator as a package reference writes it
OperatorText(o) ==
    CASE o = "==" -> <<Ch("="), Ch("=")>>
      [] o = ">=" -> <<Ch(">"), Ch("=")>>
      [] o = "<=" -> <<Ch("<"), Ch("=")>>
      [] o = ">"  -> <<Ch(">")>>
      [] o = "<"  -> <<Ch("<")>>

\* the operators of a package reference
RefOps == {"==", ">=", "<=", ">", "<"}

\* the requirements a dependency edge may carry
EdgeReqs == {AnyReq} \cup {Req(o, v) : o \in RefOps \cup {"^"}, v \in TextVersions}

\* the versions written in texts that hold two operators
RawVersions == {<<1, 0, 0>>, <<2, 0, 0>>}

\* either a text is parsed (name<op>V, the bare name, a text with two
\* operators name<op>V<op2>W, or name<op>beta whose tail is no requirement),
\* or a dependency edge is serialized and the text read back
InitParse ==
    /\ \/ /\ pc = "parse"
          /\ \E n \in {"make", "linux"} :
                \/ \E o \in RefOps, v \in TextVersions :
                      args = [kind |-> "ref", name |-> n, op |-> o, ver |-> v,
                              text |-> <<Ch(n)>> \o OperatorText(o) \o <<VerTok(v)>>]
                \/ args = [kind |-> "name", name |-> n, op |-> "*", ver |-> <<>>,
                           text |-> <<Ch(n)>>]
                \/ \E o \in RefOps, o2 \in RefOps, v \in RawVersions, w \in RawVersions :
                      args = [kind |-> "raw", name |-> n,
                              text |-> <<Ch(n)>> \o OperatorText(o) \o <<VerTok(v)>>
                                       \o OperatorText(o2) \o <<VerTok(w)>>]
                \/ \E o \in RefOps :
                      args = [kind |-> "raw", name |-> n,
                              text |-> <<Ch(n)>> \o OperatorText(o) \o <<Ch("beta")>>]
       \/ /\ pc = "serialize"
          /\ \E n \in {"make", "linux"}, r \in EdgeReqs :
                args = [kind |-> "edge", edge |-> Query(<<Ch(n)>>, r)]
    /\ db = [set |-> "local", pkgdata |-> EmptyMap]
    /\ text = NoText
    /\ ResolveIdle /\ HandlerIdle /\ EnvIdle /\ InstallIdle
    /\ result = Running

\* utils/mod.rs:13-31, called on a package reference text
PpCall ==
    /\ pc = "parse"
    /\ result' = parse_pkg_str_info(args.text)
    /\ pc' = "done"
    /\ UNCHANGED <<db, args, resolveVars, handlerVars, envVars, installVars, text>>

\* wrappers.rs:71-78
DwSerialize ==
    /\ pc = "serialize"
    /\ text' = DependencyWrap_serialize(args.edge)
    /\ pc' = "deserialize"
    /\ UNCHANGED <<db, args, resolveVars, handlerVars, envVars, installVars, result>>

\* wrappers.rs:89-97, DependencyVisitor::visit_str
DwVisitStr ==
    /\ pc = "deserialize"
    /\ result' = parse_pkg_str_info(text)
    /\ pc' = "done"
    /\ UNCHANGED <<db, args, resolveVars, handlerVars, envVars, installVars, text>>

NextParse == PpCall \/ DwSerialize \/ DwVisitStr

SpecParse == InitParse /\ [][NextParse]_vars

(***************************************************************************)
(* A PkgDb through its life: new, load, insert, remove, and its TOML form  *)
(* written and read back (core/pkgdb.rs, core/wrappers.rs).                *)
(***************************************************************************)
\* wrappers.rs:20-27, VersionWrap::serialize
VersionWrap_serialize(v) == <<VerTok(v)>>

\* NbError::PkgDbLoad(error of the read or of the deserialization)
PkgDbLoad(e) == [kind |-> "PkgDbLoad", cause |-> e]

\* wrappers.rs:38-46, VersionVisitor::visit_str
VersionWrap_visit_str(t) ==
    IF Len(t) = 1 /\ t[1].ver # <<>> THEN Ok(t[1].ver)
    ELSE Err([kind |-> "SemVerError"])

\* a PkgDb with the name of every dependency edge written as a text
TextNames(d) ==
    [set |-> d.set,
     pkgdata |-> [n \in Keys(d.pkgdata) |->
        [d.pkgdata[n] EXCEPT !.depends =
            [i \in 1..Len(d.pkgdata[n].depends) |->
                Query(<<Ch(d.pkgdata[n].depends[i].name)>>,
                      d.pkgdata[n].depends[i].req)]]]]

\* the name of every dependency edge is one plain name
PlainNames(d) ==
    \A n \in Keys(d.pkgdata) : \A i \in 1..Len(d.pkgdata[n].depends) :
        LET t == d.pkgdata[n].depends[i].name
        IN  Len(t) = 1 /\ t[1].ver = <<>> /\ t[1].ch \in Names

\* the PkgDb whose dependency names are the plain names of the texts of d
StringNames(d) ==
    [set |-> d.set,
     pkgdata |-> [n \in Keys(d.pkgdata) |->
        [d.pkgdata[n] EXCEPT !.depends =
            [i \in 1..Len(d.pkgdata[n].depends) |->
                Dep(d.pkgdata[n].depends[i].name[1].ch,
                    d.pkgdata[n].depends[i].req)]]]]

\* pkgdb.rs:12-24, the derived Serialize of PkgInfo: the version and every
\* dependency edge become strings, set_info is flattened as it is
PkgInfo_serialize(info) ==
    [version |-> VersionWrap_serialize(info.version),
     depends |-> [i \in 1..Len(info.depends) |->
                     DependencyWrap_serialize(info.depends[i])],
     set_info |-> info.set_info]

\* pkgdb.rs:142-150, the derived Serialize of PkgDb, of a PkgDb whose
\* dependency names are texts: the TOML document
PkgDb_serialize(d) ==
    [set |-> d.set,
     pkgdata |-> [n \in Keys(d.pkgdata) |-> PkgInfo_serialize(d.pkgdata[n])]]

\* pkgdb.rs:12-24, the derived Deserialize of PkgInfo
PkgInfo_deserialize(rec) ==
    LET v == VersionWrap_visit_str(rec.version)
        deps == [i \in 1..Len(rec.depends) |-> parse_pkg_str_info(rec.depends[i])]
    IN  IF ~v.ok THEN v
        ELSE IF \E i \in 1..Len(deps) : ~deps[i].ok
        THEN deps[CHOOSE i \in 1..Len(deps) :
                    ~deps[i].ok /\ \A j \in 1..(i - 1) : deps[j].ok]
        ELSE Ok([version |-> v.val,
                 depends |-> [i \in 1..Len(deps) |-> deps[i].val],
                 set_info |-> rec.set_info])

\* pkgdb.rs:162-171, PkgDb::load of a readable file holding the document:
\* the records are deserialized, nothing else is checked
PkgDb_load(doc) ==
    LET recs == [n \in Keys(doc.pkgdata) |-> PkgInfo_deserialize(doc.pkgdata[n])]
    IN  IF \E n \in Keys(recs) : ~recs[n].ok
        THEN Err(PkgDbLoad((CHOOSE e \in {recs[n] : n \in {m \in Keys(recs) : ~recs[m].ok}} : TRUE).err))
        ELSE Ok([set |-> doc.set, pkgdata |-> [n \in Keys(recs) |-> recs[n].val]])

\* the names of the PkgDbs of this specification
DbNames == {"A", "B"}

\* the records handed to insert and found in loaded files; only "A" is given
\* a dependency
DbRecords ==
    {PkgInfo(<<1, 0, 0>>, deps, si) :
        deps \in {<<>>, <<Dep("B", AnyReq)>>, <<Dep("B", Req(">=", <<1, 0, 0>>))>>,
                  <<Dep("B", Req("^", <<1, 0, 0>>))>>},
        si \in {NoSetInfo, InfoUniverse("bin"), InfoLocal(<<"usr/a">>)}}

\* the documents found in the files handed to load: a set tag and at most
\* one record, its dependency written with an operator
Documents ==
    {PkgDb_serialize(TextNames([set |-> st, pkgdata |-> pd])) :
        st \in {"universe", "local"},
        pd \in {EmptyMap} \cup
               {[n \in {"A"} |-> r] :
                   r \in {x \in DbRecords :
                            \A i \in 1..Len(x.depends) : x.depends[i].req.op = ">="}}}

\* pkgdb.rs:154-159, PkgDb::new: the empty PkgDb of DEFAULT_SET
InitDb ==
    /\ pc = "db"
    /\ db = [set |-> "universe", pkgdata |-> EmptyMap]
    /\ args = [op |-> "new"]
    /\ text = NoText
    /\ ResolveIdle /\ HandlerIdle /\ EnvIdle /\ InstallIdle
    /\ result = Ok("unit")

\* pkgdb.rs:162-171, the PkgDb is replaced by the one loaded from a file
DbLoad ==
    /\ pc \in {"db", "reloaded"}
    /\ \E doc \in Documents :
          LET r == PkgDb_load(doc)
          IN  /\ r.ok /\ PlainNames(r.val)
              /\ db' = StringNames(r.val)
              /\ args' = [op |-> "load"]
    /\ result' = Ok("unit")
    /\ pc' = "db"
    /\ UNCHANGED <<resolveVars, handlerVars, envVars, installVars, text>>

\* pkgdb.rs:187-189
DbInsert ==
    /\ pc \in {"db", "reloaded"}
    /\ \E name \in DbNames, info \in DbRecords :
          /\ name = "B" => info.depends = <<>>
          /\ db' = [db EXCEPT !.pkgdata = MapInsert(db.pkgdata, name, info)]
          /\ args' = [op |-> "insert"]
    /\ result' = Ok("unit")
    /\ pc' = "db"
    /\ UNCHANGED <<resolveVars, handlerVars, envVars, installVars, text>>

\* pkgdb.rs:207-217
DbRemove ==
    /\ pc \in {"db", "reloaded"}
    /\ \E name \in DbNames, check_conflicts \in BOOLEAN :
          \E c \in IF check_conflicts THEN check_remove(db.pkgdata, <<name>>)
                   ELSE {Ok("unit")} :
             IF ~c.ok THEN result' = c /\ db' = db
             ELSE IF name \notin Keys(db.pkgdata)
             THEN result' = Err(PkgNotFound(name)) /\ db' = db
             ELSE /\ result' = Ok("unit")
                  /\ db' = [db EXCEPT !.pkgdata = MapRemove(db.pkgdata, name)]
    /\ args' = [op |-> "remove"]
    /\ pc' = "db"
    /\ UNCHANGED <<resolveVars, handlerVars, envVars, installVars, text>>

\* bin/nbpm.rs:233, the PkgDb is serialized to its TOML document
DbSave ==
    /\ pc \in {"db", "reloaded"}
    /\ text' = PkgDb_serialize(TextNames(db))
    /\ args' = [op |-> "save"]
    /\ result' = Ok("unit")
    /\ pc' = "saved"
    /\ UNCHANGED <<db, resolveVars, handlerVars, envVars, installVars>>

\* pkgdb.rs:162-171, the document just written is loaded
DbReload ==
    /\ pc = "saved"
    /\ result' = PkgDb_load(text)
    /\ args' = [op |-> "load"]
    /\ pc' = "reloaded"
    /\ UNCHANGED <<db, resolveVars, handlerVars, envVars, installVars, text>>

NextDb == DbLoad \/ DbInsert \/ DbRemove \/ DbSave \/ DbReload

SpecDb == InitDb /\ [][NextDb]_vars

(***************************************************************************)
(* PkgDb::remove (core/pkgdb.rs), called again and again on a PkgDb with   *)
(* dependency edges.                                                       *)
(***************************************************************************)
\* PkgDb_remove mutated: the record is taken out before the conflict check,
\* whose error is returned afterwards
PkgDb_removeThenCheck(pkgdata, name, check_conflicts) ==
    {[res |-> c,
      pkgdata |-> IF name \in Keys(pkgdata) THEN MapRemove(pkgdata, name)
                  ELSE pkgdata] :
        c \in IF check_conflicts THEN check_remove(pkgdata, <<name>>)
              ELSE {IF name \in Keys(pkgdata) THEN Ok("unit")
                    ELSE Err(PkgNotFound(name))}}

\* pkgdb.rs:207-217, PkgDb::remove(name, check_conflicts): the results it can
\* return and the pkgdata it leaves
PkgDb_remove(pkgdata, name, check_conflicts) ==
    {IF ~c.ok THEN [res |-> c, pkgdata |-> pkgdata]
     ELSE IF name \notin Keys(pkgdata)
     THEN [res |-> Err(PkgNotFound(name)), pkgdata |-> pkgdata]
     ELSE [res |-> Ok("unit"), pkgdata |-> MapRemove(pkgdata, name)] :
        c \in IF check_conflicts THEN check_remove(pkgdata, <<name>>)
              ELSE {Ok("unit")}}

\* a Local PkgDb with dependency edges, no call made yet
InitDbRemove ==
    /\ pc = "pkgdb"
    /\ \E vers \in [Names -> Versions \cup {NoVersion}] :
       \E E \in KSubsets(EdgeU, MaxEdges) :
       \E edges \in Perms(E) :
          db = [set |-> "local", pkgdata |-> GenPkgData(vers, edges, LocalInfo("/"))]
    /\ args = [op |-> "new", name |-> "A", check_conflicts |-> FALSE]
    /\ ResolveIdle /\ HandlerIdle /\ EnvIdle /\ InstallIdle
    /\ result = Ok("unit")
    /\ text = NoText

\* pkgdb.rs:207-217, one call of PkgDb::remove
PrRemove ==
    /\ pc = "pkgdb"
    /\ \E name \in Names, check_conflicts \in BOOLEAN :
       \E r \in PkgDb_remove(db.pkgdata, name, check_conflicts) :
          /\ db' = [db EXCEPT !.pkgdata = r.pkgdata]
          /\ result' = r.res
          /\ args' = [op |-> "remove", name |-> name,
                      check_conflicts |-> check_conflicts]
    /\ pc' = "pkgdb"
    /\ UNCHANGED <<resolveVars, handlerVars, envVars, installVars, text>>

NextDbRemove == PrRemove

SpecDbRemove == InitDbRemove /\ [][NextDbRemove]_vars

(***************************************************************************)
(* The install command of the nbpm binary (bin/nbpm.rs), from the loop     *)
(* over the downloaded archives to the end of main.                        *)
(***************************************************************************)
\* utils.rs:90-93, the paths of one record are removed in the order they are
\* listed, `?` returns at the first that fails
RECURSIVE RemovePaths(_, _, _, _)
RemovePaths(paths, root, files, flt) ==
    IF paths = <<>> THEN [fs |-> files, ok |-> TRUE]
    ELSE LET r == remove_path(files, flt, Join(root, Head(paths)))
         IN  IF ~r.ok THEN [fs |-> r.fs, ok |-> FALSE]
             ELSE RemovePaths(Tail(paths), root, r.fs, flt)

\* utils.rs:80-96, remove_local_pkgs(pkgs, config), the HashMap visited in the
\* order names: a meta-package is skipped, a Universe record reaches
\* unimplemented!()
RECURSIVE remove_local_pkgs(_, _, _, _, _)
remove_local_pkgs(pkgs, names, root, files, flt) ==
    IF names = <<>> THEN [fs |-> files, ok |-> TRUE, panic |-> FALSE]
    ELSE LET info == pkgs[Head(names)]
         IN  IF info.set_info.kind = "none"
             THEN remove_local_pkgs(pkgs, Tail(names), root, files, flt)
             ELSE IF info.set_info.kind = "universe"
             THEN [fs |-> files, ok |-> TRUE, panic |-> TRUE]
             ELSE LET r == RemovePaths(info.set_info.paths, root, files, flt)
                  IN  IF ~r.ok THEN [fs |-> r.fs, ok |-> FALSE, panic |-> FALSE]
                      ELSE remove_local_pkgs(pkgs, Tail(names), root, r.fs, flt)

\* bin/nbpm.rs:166-169, main after the archives of graph have been
\* downloaded: downl_files lists them in the order the HashMap was visited,
\* local_db is the PkgDb loaded from LOCAL_DB_PATH, nothing has been written
InitMainInstall ==
    /\ pc = "main_extract"
    /\ \E vers \in [Names -> {NoVersion, <<1, 0, 0>>}] :
          db = [set |-> "local",
                pkgdata |-> GenPkgData(vers, <<>>, LocalInfo("/mnt"))]
    /\ \E vers \in [Names -> {NoVersion, <<1, 1, 0>>}] :
          graph = GenPkgData(vers, <<>>, IndexInfo)
    /\ \E kinds \in [{"A", "B"} -> ArchiveKinds] :
       \E fail \in {[step |-> "none", pkg |-> "A"]} \cup
                   {[step |-> st, pkg |-> n] :
                       st \in FailSteps \ {"download"}, n \in {"A", "B"}} :
          args = [root |-> "/mnt", kinds |-> kinds, fail |-> fail]
    /\ fs = OwnedPaths(db.pkgdata)
    /\ faults \in {NoFaults, [locked |-> {Path("/mnt", "usr/a")}, unreadable |-> {}]}
    /\ start = [db |-> db, fs |-> fs]
    /\ todo = {}
    /\ errors = <<>>
    /\ downl_files \in Perms({n \in Keys(graph) : ~is_meta(graph[n])})
    /\ fetched = Range(downl_files)
    /\ cur = 1 /\ installed_pkgs = EmptyMap /\ status = Ok("unit")
    /\ work_curr = EmptyWorkDir /\ extracted = {} /\ copied = {}
    /\ ResolveIdle
    /\ result = Running
    /\ text = NoText

\* bin/nbpm.rs:170-175, tar extracts the next archive into NBPM_WORK_CURR; on
\* its failure exit_with_err ends the process
MiExtract ==
    /\ pc = "main_extract"
    /\ cur <= Len(downl_files)
    /\ LET pkg_name == downl_files[cur]
           ar == Archive(pkg_name, args.kinds[pkg_name], graph[pkg_name])
       IN  IF Fails("extract", pkg_name)
           THEN /\ result' = Err(IoError("tar"))
                /\ pc' = "exit"
                /\ UNCHANGED <<work_curr, extracted>>
           ELSE /\ work_curr' = [files |-> work_curr.files \cup ar.files,
                                 info |-> ar.info]
                /\ extracted' = extracted \cup {pkg_name}
                /\ pc' = "main_read"
                /\ UNCHANGED result
    /\ UNCHANGED <<db, args, resolveVars, handlerVars, envVars, downl_files, cur,
                   installed_pkgs, status, fetched, copied, text>>

\* bin/nbpm.rs:177-194, nbinfo.toml is read and deserialized; a failure
\* clears success and breaks the loop
MiRead ==
    /\ pc = "main_read"
    /\ IF Fails("read", downl_files[cur])
       THEN status' = Err(IoError("nbinfo")) /\ pc' = "main_end"
       ELSE status' = status /\ pc' = "main_copy"
    /\ UNCHANGED <<db, args, resolveVars, handlerVars, envVars, downl_files, cur,
                   installed_pkgs, work_curr, fetched, extracted, copied, text,
                   result>>

\* bin/nbpm.rs:196-201 and utils.rs:216-283, install_pkg_files: a failure
\* removes the files copied before it, clears success and breaks the loop
MiCopy ==
    /\ pc = "main_copy"
    /\ LET pkg_name == downl_files[cur]
       IN  IF ~Fails("copy", pkg_name)
           THEN /\ fs' = fs \cup Installed(args.root, work_curr.files)
                /\ copied' = copied \cup {Path(args.root, f) : f \in work_curr.files}
                /\ pc' = "main_insert"
                /\ UNCHANGED status
           ELSE \E failing \in work_curr.files :
                \E before \in SUBSET (work_curr.files \ {failing}) :
                \E installed_files \in Perms({Path(args.root, f) : f \in before}) :
                   LET r == UndoCopy(installed_files,
                                     fs \cup Installed(args.root, before),
                                     faults, <<>>)
                   IN  /\ fs' = r.fs
                       /\ copied' = copied \cup Range(installed_files)
                       /\ status' = IF r.cannot_remove = <<>>
                                    THEN Err(CleanUnSuccessfulInstallation)
                                    ELSE Err(DirtyUnSuccessfulInstallation(
                                                 r.cannot_remove))
                       /\ pc' = "main_end"
    /\ UNCHANGED <<db, args, resolveVars, handlerVars, faults, start, downl_files,
                   cur, installed_pkgs, work_curr, fetched, extracted, text, result>>

\* bin/nbpm.rs:203-209, the first key of the deserialized nbinfo.toml and its
\* record go into installed_pkgs, the paths of the record as they are
MiInsert ==
    /\ pc = "main_insert"
    /\ IF Keys(work_curr.info) = {}
       THEN pc' = "panic" /\ UNCHANGED installed_pkgs
       ELSE \E name \in Keys(work_curr.info) :
               /\ installed_pkgs' = MapInsert(installed_pkgs, name, work_curr.info[name])
               /\ pc' = "main_clean"
    /\ UNCHANGED <<db, args, resolveVars, handlerVars, envVars, downl_files, cur,
                   status, work_curr, fetched, extracted, copied, text, result>>

\* bin/nbpm.rs:211-216, clean_work_curr; a failure clears success and breaks
\* the loop
MiClean ==
    /\ pc = "main_clean"
    /\ IF Fails("clean", downl_files[cur])
       THEN /\ status' = Err(IoError("clean_work_curr"))
            /\ pc' = "main_end"
            /\ UNCHANGED <<work_curr, cur>>
       ELSE /\ work_curr' = EmptyWorkDir
            /\ cur' = cur + 1
            /\ pc' = "main_extract"
            /\ UNCHANGED status
    /\ UNCHANGED <<db, args, resolveVars, handlerVars, envVars, downl_files,
                   installed_pkgs, fetched, extracted, copied, text, result>>

\* the end of the for loop over downl_files
MiLoopEnd ==
    /\ pc = "main_extract"
    /\ cur > Len(downl_files)
    /\ pc' = "main_end"
    /\ UNCHANGED <<db, args, resolveVars, handlerVars, envVars, installVars, text,
                   result>>

\* bin/nbpm.rs:220-226, the loop was broken: remove_local_pkgs removes the
\* files of installed_pkgs, its error goes to exit_with_err, otherwise main
\* returns
MiUndo ==
    /\ pc = "main_end"
    /\ ~status.ok
    /\ \E names \in Perms(Keys(installed_pkgs)) :
          LET r == remove_local_pkgs(installed_pkgs, names, args.root, fs, faults)
          IN  /\ fs' = r.fs
              /\ pc' = IF r.panic THEN "panic" ELSE "exit"
              /\ result' = IF r.panic THEN result
                           ELSE IF r.ok THEN Ok("unit")
                           ELSE Err(IoError("remove_path"))
    /\ UNCHANGED <<db, args, resolveVars, handlerVars, faults, start, installVars,
                   text>>

\* bin/nbpm.rs:227-243, every package was installed: the records of
\* installed_pkgs are inserted into local_db, which is serialized and written
\* to LOCAL_DB_PATH
MiCommit ==
    /\ pc = "main_end"
    /\ status.ok
    /\ db' = [db EXCEPT !.pkgdata =
                 InsertAll(@, Keys(installed_pkgs), installed_pkgs)]
    /\ text' = PkgDb_serialize(TextNames(db'))
    /\ pc' = "exit"
    /\ result' = Ok("unit")
    /\ UNCHANGED <<args, resolveVars, handlerVars, envVars, installVars>>

NextMainInstall ==
    \/ MiExtract \/ MiRead \/ MiCopy \/ MiInsert \/ MiClean \/ MiLoopEnd
    \/ MiUndo \/ MiCommit

SpecMainInstall == InitMainInstall /\ [][NextMainInstall]_vars

(***************************************************************************)
(* Properties of get_subgraph.                                             *)
(***************************************************************************)
\* the names one dependency edge of the PkgDb away from a name of S
DirectDeps(pkgdata, S) ==
    UNION {{d.name : d \in Range(pkgdata[n].depends)} : n \in S \cap Keys(pkgdata)}

\* the names reachable from S through zero or more dependency edges
RECURSIVE ReachableFrom(_, _)
ReachableFrom(pkgdata, S) ==
    LET next == S \cup DirectDeps(pkgdata, S)
    IN  IF next = S THEN S ELSE ReachableFrom(pkgdata, next)

\* the names get_subgraph was asked to resolve
Selected == IF args.select.some THEN Range(args.select.names) ELSE Keys(db.pkgdata)

\* get_subgraph(select, true) has returned a subgraph
ResolvedOk == pc = "done" /\ args.follow_deps /\ result.ok

\* C1: a subgraph returned by get_subgraph(select, true) holds exactly the
\* names reachable from the selection through dependency edges, each mapped to
\* its record of the PkgDb
C1_ClosureExact ==
    ResolvedOk =>
        /\ Keys(result.val) = ReachableFrom(db.pkgdata, Selected)
        /\ \A n \in Keys(result.val) : result.val[n] = db.pkgdata[n]

\* C1 witness: a returned subgraph that holds a dependency of a dependency
\* and leaves an unreachable package of the PkgDb out
C1_Witness ==
    /\ ResolvedOk
    /\ args.select = Some(<<"A">>)
    /\ DirectDeps(db.pkgdata, {"A"}) = {"B"}
    /\ DirectDeps(db.pkgdata, {"B"}) = {"C"}
    /\ Keys(result.val) = {"A", "B", "C"}

\* C1 witness of the exclusion: an unreachable record is not in the subgraph
C1_WitnessExcluded ==
    /\ ResolvedOk
    /\ args.select = Some(<<"A">>)
    /\ Keys(db.pkgdata) = {"A", "B", "C"}
    /\ Keys(result.val) = {"A", "B"}

\* an edge of record n that the map m does not satisfy
EdgeViolated(m, n, d) ==
    d.name \notin Keys(m) \/ ~Matches(d.req, m[d.name].version)

\* some record reachable from the selection is absent from the PkgDb or has
\* an edge that the PkgDb does not satisfy
ReachableViolation ==
    \E n \in ReachableFrom(db.pkgdata, Selected) :
        \/ n \notin Keys(db.pkgdata)
        \/ \E d \in Range(db.pkgdata[n].depends) : EdgeViolated(db.pkgdata, n, d)

\* C2: every edge of a returned subgraph leads to a record of the subgraph
\* whose version matches the requirement, and get_subgraph(select, true) fails
\* whenever an edge reachable from the selection is not satisfied
C2_Integrity ==
    /\ ResolvedOk =>
          \A n \in Keys(result.val) : \A d \in Range(result.val[n].depends) :
              ~EdgeViolated(result.val, n, d)
    /\ (pc = "done" /\ args.follow_deps /\ ReachableViolation) => ~result.ok

\* C2 witness: a returned subgraph with an edge whose requirement not every
\* version satisfies
C2_Witness ==
    /\ ResolvedOk
    /\ \E n \in Keys(result.val) : \E d \in Range(result.val[n].depends) :
          d.req = Req(">=", <<1, 1, 0>>) /\ d.name # n

\* C2 witness of the failure: an edge to a present record of the wrong version
C2_WitnessBroken ==
    /\ pc = "done" /\ args.follow_deps
    /\ ~result.ok /\ result.err.kind = "BrokenDependency"

\* the edges to a name absent from the PkgDb, of records reachable from the
\* selection
AbsentEdges ==
    UNION {{<<n, d.name>> : d \in {e \in Range(db.pkgdata[n].depends) :
                                   e.name \notin Keys(db.pkgdata)}} :
           n \in ReachableFrom(db.pkgdata, Selected) \cap Keys(db.pkgdata)}

\* C3 as claimed: when every selected name is in the PkgDb and a reachable
\* record depends on a name absent from it, get_subgraph(select, true) fails
\* with MissingDependency(absent dependency, requiring package)
C3_MissingDependencyClaimed ==
    (pc = "done" /\ args.follow_deps /\ Selected \subseteq Keys(db.pkgdata)
        /\ AbsentEdges # {})
    => \E e \in AbsentEdges : result = Err(MissingDependency(e[2], e[1]))

\* what the code returns in the case of C3: PkgNotFound of an absent dependency
C3_PkgNotFoundReturned ==
    (pc = "done" /\ args.follow_deps /\ Selected \subseteq Keys(db.pkgdata)
        /\ AbsentEdges # {})
    => \E e \in AbsentEdges : result = Err(PkgNotFound(e[2]))

(***************************************************************************)
(* Properties of check_remove and remove_handler.                          *)
(***************************************************************************)
\* the (dependency, dependent) pairs that removing the names of S breaks: the
\* dependent is a record of the PkgDb outside S with an edge naming a package
\* of S whose version satisfies the edge's requirement
Conflicts(pkgdata, S) ==
    UNION {{<<d.name, n>> : d \in {e \in Range(pkgdata[n].depends) :
                                   /\ e.name \in S \cap Keys(pkgdata)
                                   /\ Matches(e.req, pkgdata[e.name].version)}} :
           n \in Keys(pkgdata) \ S}

\* r is the RemoveBreaksPkg error of one of the pairs of cs
BreaksOneOf(r, cs) == \E c \in cs : r = Err(RemoveBreaksPkg(c[1], c[2]))

\* C4: on names that are all in the PkgDb, check_remove fails with
\* RemoveBreaksPkg(dependency, dependent) exactly when a record outside
\* to_remove has a satisfied edge to a package of to_remove, and returns Ok
\* otherwise
C4_CheckRemoveExact ==
    (pc = "done" /\ Range(args.to_remove) \subseteq Keys(db.pkgdata)) =>
        LET cs == Conflicts(db.pkgdata, Range(args.to_remove))
        IN  IF cs = {} THEN result = Ok("unit") ELSE BreaksOneOf(result, cs)

\* C4 witness: B installed at 1.0.0, A installed depending on B>=1.0.0;
\* removing B alone fails naming B and A
C4_Witness ==
    /\ pc = "done"
    /\ args.to_remove = <<"B">>
    /\ {"A", "B"} \subseteq Keys(db.pkgdata)
    /\ db.pkgdata["B"].version = <<1, 0, 0>>
    /\ db.pkgdata["A"].depends = <<Dep("B", Req(">=", <<1, 0, 0>>))>>
    /\ result = Err(RemoveBreaksPkg("B", "A"))

\* C4 witness of the success: the same PkgDb, A and B removed together
C4_WitnessTogether ==
    /\ pc = "done"
    /\ Range(args.to_remove) = {"A", "B"}
    /\ Keys(db.pkgdata) = {"A", "B"}
    /\ db.pkgdata["B"].version = <<1, 0, 0>>
    /\ db.pkgdata["A"].depends = <<Dep("B", Req(">=", <<1, 0, 0>>))>>
    /\ result = Ok("unit")

\* the removal target of remove_handler would break a retained package
TargetConflicts == Conflicts(db.pkgdata, Keys(graph))

\* C5: when conflict checking is enabled and the removal target would break a
\* retained package, remove_handler never reaches the removal loop, the
\* filesystem and local_db stay as they were at the call, and the call returns
\* RemoveBreaksPkg (unless the prompt ended it first)
C5_ConflictAbortsBeforeDeletion ==
    (args.check_conflicts /\ TargetConflicts # {}) =>
        /\ fs = start.fs
        /\ db = start.db
        /\ pc \notin {"remove", "panic"}
        /\ pc = "done" =>
              \/ BreaksOneOf(result, TargetConflicts)
              \/ args.ask_user /\ result \in {Ok("unit"), Err(IoError("read_line"))}

\* C5 witness: a recursive removal whose closure breaks a retained package has
\* returned RemoveBreaksPkg
C5_Witness ==
    /\ pc = "done"
    /\ args.check_conflicts /\ args.recursive
    /\ Cardinality(Keys(graph)) = 2
    /\ Cardinality(Range(args.to_remove)) = 1
    /\ fs # {}
    /\ BreaksOneOf(result, TargetConflicts)

\* C6 as claimed: after a successful removal that was not cancelled, local_db
\* is its state at the call minus the targeted names
C6_TargetsRemovedFromDbClaimed ==
    (pc = "done" /\ ~args.ask_user /\ result = Ok("unit")) =>
        /\ Keys(db.pkgdata) = Keys(start.db.pkgdata) \ Keys(graph)
        /\ \A n \in Keys(db.pkgdata) : db.pkgdata[n] = start.db.pkgdata[n]

\* what the code does in the case of C6: local_db is never written
C6_DbNeverWritten == db = start.db

(***************************************************************************)
(* Properties of install_handler.                                          *)
(***************************************************************************)
\* the entry of name n in a pkgdata, <<>> when there is none
Entry(pkgdata, n) == IF n \in Keys(pkgdata) THEN <<pkgdata[n]>> ELSE <<>>

\* install_handler has returned an error
InstallFailed == pc = "done" /\ ~result.ok

\* C7 as claimed: when install_handler returns an error, the entry of local_db
\* for every non-meta package of the run is what it was before the call
C7_NoRecordLeftOnErrorClaimed ==
    InstallFailed =>
        \A n \in Keys(graph) :
            ~is_meta(graph[n]) => Entry(db.pkgdata, n) = Entry(start.db.pkgdata, n)

\* what the code does in the case of C7: the records inserted by the loop are
\* still in local_db when the error is returned
C7_InsertedRecordsStay ==
    InstallFailed =>
        \A n \in Range(installed_pkgs) :
            /\ n \in Keys(db.pkgdata)
            /\ db.pkgdata[n].version = graph[n].version

C8_ListedFilesRemoved ==
    (InstallFailed /\ ~status.ok /\ faults = NoFaults) =>
        copied \cap fs \subseteq {Path(args.root, "usr/x")}

\* the position in downl_files of the package whose step fails
FailedAt == CHOOSE i \in 1..Len(downl_files) : downl_files[i] = args.fail.pkg

\* the packages ordered after the one whose step failed
LaterPkgs == {downl_files[j] : j \in (FailedAt + 1)..Len(downl_files)}

Downgrades(g, pkgdata) ==
    {n \in Keys(g) \cap Keys(pkgdata) : VLess(g[n].version, pkgdata[n].version)}

\* the targets with no installed record of the same name
ToInstall(g, pkgdata) == Keys(g) \ Keys(pkgdata)

\* the targets whose version is strictly greater than the installed version
ToUpdate(g, pkgdata) ==
    {n \in Keys(g) \cap Keys(pkgdata) : VLess(pkgdata[n].version, g[n].version)}

\* the targets whose version equals the installed version
AlreadyInstalled(g, pkgdata) ==
    {n \in Keys(g) \cap Keys(pkgdata) : g[n].version = pkgdata[n].version}

\* C10: when no target has a version lower than the installed record of the
\* same name, purge_already_installed succeeds and leaves in graph exactly
\* the targets to install and the targets to update, with their records; the
\* targets of equal version are removed
C10_PurgeKeepsInstallsAndUpdates ==
    (pc = "done" /\ Downgrades(args.graph, db.pkgdata) = {}) =>
        /\ result = Ok("unit")
        /\ Keys(graph) = ToInstall(args.graph, db.pkgdata)
                            \cup ToUpdate(args.graph, db.pkgdata)
        /\ Keys(graph) \cap AlreadyInstalled(args.graph, db.pkgdata) = {}
        /\ \A n \in Keys(graph) : graph[n] = args.graph[n]

\* C10 witness: a call without downgrade that has returned, with a target to
\* install, a target to update and a target of equal version
C10_Witness ==
    /\ pc = "done"
    /\ Downgrades(args.graph, db.pkgdata) = {}
    /\ ToInstall(args.graph, db.pkgdata) # {}
    /\ ToUpdate(args.graph, db.pkgdata) # {}
    /\ AlreadyInstalled(args.graph, db.pkgdata) # {}
    /\ Keys(graph) # Keys(args.graph)

\* C11: when some target has a version lower than the installed record of
\* the same name, purge_already_installed returns RequiresPkgDowngrade with
\* the name of such a target, the installed version and the target version,
\* and graph and the local PkgDb are as they were at the call
C11_DowngradeRefused ==
    (pc = "done" /\ Downgrades(args.graph, db.pkgdata) # {}) =>
        /\ \E n \in Downgrades(args.graph, db.pkgdata) :
              result = Err(RequiresPkgDowngrade(n, db.pkgdata[n].version,
                                                args.graph[n].version))
        /\ graph = args.graph
        /\ db = start.db

\* C11 witness: the call has returned the downgrade error for a graph that
\* also holds a target of equal version
C11_Witness ==
    /\ pc = "done"
    /\ ~result.ok
    /\ Downgrades(args.graph, db.pkgdata) # {}
    /\ AlreadyInstalled(args.graph, db.pkgdata) # {}

(***************************************************************************)
(* Properties of parse_pkg_str_info and of the dependency text form.       *)
(***************************************************************************)
\* the versions a requirement is matched against
ProbeVersions == TextVersions \cup {<<1, 0, 1>>, <<6, 0, 0>>}

\* parse_pkg_str_info has returned for the text name<op>V
ParsedRef == pc = "done" /\ args.kind = "ref"

\* C12 as claimed: the requirement parsed from name<op>V matches a version W
\* exactly when W <op> V holds
C12_ParsedReqIsOperatorClaimed ==
    ParsedRef =>
        /\ result.ok
        /\ \A w \in ProbeVersions :
              Matches(result.val.req, w) <=> Matches(Req(args.op, args.ver), w)

\* what the code returns in the case of C12: the name, and the caret
\* requirement of V whatever the operator
C12_OperatorDropped ==
    ParsedRef => result = Ok(Query(<<Ch(args.name)>>, Req("^", args.ver)))

\* a serialized dependency edge has been read back
ParsedEdge == pc = "done" /\ args.kind = "edge"

\* C13 as claimed: parsing the text DependencyWrap serialization produces
\* yields the name and the requirement of the edge
C13_EdgeRoundTripClaimed ==
    ParsedEdge => result = Ok(args.edge)

\* what the code does in the case of C13: the text read back is a name with
\* the requirement's text appended and the any requirement, or the name and
\* the caret requirement of the version
C13_EdgeReadBack ==
    ParsedEdge =>
        \/ result = Ok(Query(text, AnyReq)) /\ text # args.edge.name
        \/ /\ result = Ok(Query(args.edge.name, Req("^", args.edge.req.ver)))
           /\ args.edge.req.op \in {">=", "<=", ">", "<"}

(***************************************************************************)
(* Properties of the PkgDb.                                                *)
(***************************************************************************)
\* every record with a set_info has the variant of the set tag of d
SetConsistent(d) ==
    \A n \in Keys(d.pkgdata) : d.pkgdata[n].set_info.kind \in {"none", d.set}

\* C14 as claimed: in every PkgDb reached by new, load, insert and remove
\* every record that has a set_info has the variant of the PkgDb's set tag
C14_SetConsistentClaimed == pc \in {"db", "saved", "reloaded"} => SetConsistent(db)

\* the local_db of install_handler, loaded with the local set tag, holds
\* only Local records and meta-packages at every step of the run
C14_InstallInsertsLocalRecords == db.set = "local" => SetConsistent(db)

\* C20 as claimed: loading the TOML document a PkgDb was serialized to
\* yields the same set tag and the same name-to-record mapping
C20_RoundTripClaimed ==
    pc = "reloaded" => result = Ok(TextNames(db))

\* in the case of C20 the set tag, the names, the versions and the set_info
\* come back; a PkgDb without dependency edge comes back whole
C20_RoundTripButDepends ==
    pc = "reloaded" =>
        /\ result.ok
        /\ result.val.set = db.set
        /\ Keys(result.val.pkgdata) = Keys(db.pkgdata)
        /\ \A n \in Keys(db.pkgdata) :
              /\ result.val.pkgdata[n].version = db.pkgdata[n].version
              /\ result.val.pkgdata[n].set_info = db.pkgdata[n].set_info
              /\ db.pkgdata[n].depends = <<>> =>
                    result.val.pkgdata[n] = db.pkgdata[n]

(***************************************************************************)
(* Properties of install_handler, continued.                               *)
(***************************************************************************)
\* the meta-packages of the target graph
MetaPkgs == {n \in Keys(graph) : is_meta(graph[n])}

\* C15: a meta-package of the target graph is never fetched, extracted or
\* taken through the install loop, and when install_handler returns Ok
\* local_db holds its record
C15_MetaInsertedWithoutFiles ==
    /\ MetaPkgs \cap (fetched \cup extracted) = {}
    /\ MetaPkgs \cap (Range(downl_files) \cup Range(installed_pkgs)) = {}
    /\ (pc = "done" /\ result.ok) =>
          \A n \in MetaPkgs : n \in Keys(db.pkgdata) /\ db.pkgdata[n] = graph[n]

\* C15 witness: a successful run has returned for a graph with a package
\* that was installed and a meta-package that local_db did not hold
C15_Witness ==
    /\ pc = "done" /\ result.ok
    /\ installed_pkgs # <<>>
    /\ copied # {}
    /\ \E n \in MetaPkgs : n \notin Keys(start.db.pkgdata)

(***************************************************************************)
(* Properties of get_subgraph, continued.                                  *)
(***************************************************************************)
\* C16: get_subgraph returns, a subgraph or an error, for every PkgDb and
\* selection, dependency cycles, self-dependencies and repeated selected
\* names included
C16_Terminates == <>(pc = "done")

\* C16 witness: get_subgraph(select, true) has returned for a selection that
\* names twice a package on a dependency cycle
C16_Witness ==
    /\ pc = "done" /\ args.follow_deps
    /\ args.select = Some(<<"A", "A">>)
    /\ "B" \in DirectDeps(db.pkgdata, {"A"})
    /\ "A" \in DirectDeps(db.pkgdata, {"B"})

\* C16 witness of the self-dependency: get_subgraph(select, true) has
\* returned for a selected package that depends on itself
C16_WitnessSelf ==
    /\ pc = "done" /\ args.follow_deps
    /\ args.select = Some(<<"A">>)
    /\ "A" \in DirectDeps(db.pkgdata, {"A"})

(***************************************************************************)
(* Properties of the propagation of failures.                              *)
(***************************************************************************)
\* C17 as claimed: whatever the records of the graph and the metadata of the
\* archives, install_handler and the operations it calls never terminate the
\* process
C17_NeverPanicsClaimed == pc # "panic"

\* in the case of C17, on a graph of Universe records and meta-packages whose
\* archives hold a Local record under the package's name, no step panics
C17_NoPanicOnExpectedInput ==
    pc = "panic" =>
        \/ \E n \in Keys(graph) : graph[n].set_info.kind = "local"
        \/ \E n \in Range(downl_files) : args.kinds[n] \in {"misnamed", "universe"}

(***************************************************************************)
(* Properties of get_subgraph without follow_deps.                         *)
(***************************************************************************)
\* C18: get_subgraph(select, false) returns exactly the selected records
\* when every selected name is in the PkgDb, and fails with PkgNotFound of
\* an absent selected name otherwise
C18_ExactLookup ==
    (pc = "done" /\ ~args.follow_deps) =>
        IF Selected \subseteq Keys(db.pkgdata)
        THEN /\ result.ok
             /\ Keys(result.val) = Selected
             /\ \A n \in Selected : result.val[n] = db.pkgdata[n]
        ELSE /\ ~result.ok
             /\ \E n \in Selected \ Keys(db.pkgdata) : result.err = PkgNotFound(n)

\* C18 witness: the selected record is returned alone although the PkgDb
\* does not hold the dependency it names
C18_Witness ==
    /\ pc = "done" /\ ~args.follow_deps /\ result.ok
    /\ args.select = Some(<<"A">>)
    /\ DirectDeps(db.pkgdata, {"A"}) = {"B"}
    /\ "B" \notin Keys(db.pkgdata)
    /\ Keys(result.val) = {"A"}

\* C18 witness of the failure: a selected name is absent and the call has
\* failed
C18_WitnessAbsent ==
    /\ pc = "done" /\ ~args.follow_deps /\ ~result.ok
    /\ args.select = Some(<<"A", "B">>)
    /\ "A" \in Keys(db.pkgdata)
    /\ result.err = PkgNotFound("B")

(***************************************************************************)
(* Properties of the error install_handler returns.                        *)
(***************************************************************************)
\* the files copied in this run that are still on the filesystem
LeftOver == copied \cap fs

C19_StatusOrUndoError ==
    (InstallFailed /\ ~status.ok) =>
        \/ result = status
        \/ result.err.kind = "CannotRemovePkgs"

\* in the case of C19 the clean and dirty errors come from install_pkg_files
\* alone and tell of the files of the package whose copy failed
C19_CleanDirtyOnlyFromCopy ==
    (~status.ok /\ status.err.kind \in {"CleanUnSuccessfulInstallation",
                                        "DirtyUnSuccessfulInstallation"}) =>
        args.fail.step = "copy"

(***************************************************************************)
(* The contract of parse_pkg_str_info on arbitrary texts.                  *)
(***************************************************************************)
\* some comparison operator occurs in t at position i
OperatorAt(t, i) == \E k \in 1..Len(Operators) : OccursAt(t, Operators[k], i)

\* the position of the first operator occurring in t, 0 when there is none
FirstOperatorPos(t) ==
    IF \E i \in 1..Len(t) : OperatorAt(t, i)
    THEN CHOOSE i \in 1..Len(t) :
            OperatorAt(t, i) /\ \A j \in 1..(i - 1) : ~OperatorAt(t, j)
    ELSE 0

\* the operator read at position i, >= and <= in preference to > and <
OperatorRead(t, i) ==
    Operators[CHOOSE k \in 1..Len(Operators) :
                 /\ OccursAt(t, Operators[k], i)
                 /\ \A j \in 1..(k - 1) : ~OccursAt(t, Operators[j], i)]

\* the result the contract describes for the text t
ContractParse(t) ==
    LET i == FirstOperatorPos(t)
    IN  IF i = 0 THEN Ok(Query(t, AnyReq))
        ELSE LET after == SubSeq(t, i + Len(OperatorRead(t, i)), Len(t))
                 parsed == VersionReq_parse(after)
             IN  IF parsed.ok THEN Ok(Query(SubSeq(t, 1, i - 1), parsed.val))
                 ELSE Err(ReqParseError)

\* parse_pkg_str_info has returned for a text given to it directly
ParsedText == pc = "done" /\ args.kind \in {"ref", "name", "raw"}

\* C21 as claimed: the name is the text before the first occurring operator,
\* the requirement is parsed from everything after that operator, a text
\* without operator is a name with the any requirement, and an invalid text
\* after the operator is a parse error
C21_ParseContractClaimed ==
    ParsedText => result = ContractParse(args.text)

\* what the code does in the case of C21: it agrees with the contract on
\* every text with at most one operator, and wherever it differs the
\* contract demands a parse error and the code returns a Query
C21_AcceptsTextAfterSecondOperator ==
    ParsedText =>
        \/ result = ContractParse(args.text)
        \/ /\ result.ok
           /\ ~ContractParse(args.text).ok
           /\ Len(args.text) > 4

\* C21, the part that holds: texts with one operator or none
C21_SingleOperatorTexts ==
    (ParsedText /\ args.kind \in {"ref", "name"}) =>
        result = ContractParse(args.text)

(***************************************************************************)
(* The order of the steps of install_handler for one record.               *)
(***************************************************************************)
\* the paths under the root that the archive of n ships
ShippedPaths(n) ==
    {Path(args.root, f) : f \in Archive(n, args.kinds[n], graph[n]).files}

\* every file of the archive of n has been copied under the root in this run
AllCopied(n) == ShippedPaths(n) \subseteq copied

\* C22 as claimed: at no point of the run does local_db hold a record
\* inserted by this run whose files have not all been copied
C22_InsertedOnlyAfterCopyClaimed ==
    \A i \in 1..Len(installed_pkgs) :
        installed_pkgs[i] \in Keys(db.pkgdata) => AllCopied(installed_pkgs[i])

\* what the code does in the case of C22: the record is inserted once the
\* archive is extracted and nbinfo.toml read, before the copy; only the
\* records inserted before the last one have all their files copied
C22_InsertedBeforeCopy ==
    /\ \A i \in 1..Len(installed_pkgs) :
          /\ installed_pkgs[i] \in extracted
          /\ installed_pkgs[i] \in Keys(db.pkgdata)
    /\ \A i \in 1..(Len(installed_pkgs) - 1) : AllCopied(installed_pkgs[i])
    /\ pc = "copy" => /\ Len(installed_pkgs) = cur
                      /\ ~AllCopied(installed_pkgs[cur])

\* a step of the run has failed: the loop has recorded an error in status, or
\* install_handler has returned an error
StepFailed == ~status.ok \/ (pc = "done" /\ ~result.ok)

\* the step leaves every record of local_db alone but those of meta-packages
\* of the target graph
OnlyMetaWritten ==
    /\ Keys(db.pkgdata) \subseteq Keys(db'.pkgdata)
    /\ \A n \in Keys(db'.pkgdata) \ MetaPkgs :
          n \in Keys(db.pkgdata) /\ db'.pkgdata[n] = db.pkgdata[n]

\* C23: once a step has failed, the only steps taken are the insertion of the
\* meta-packages and the rollback; no record is extracted, copied or
\* inserted as a non-meta record any more
C23_HaltsAfterFailure ==
    [][StepFailed =>
          /\ IhMeta \/ IhRollback
          /\ extracted' = extracted
          /\ copied' = copied
          /\ installed_pkgs' = installed_pkgs
          /\ cur' = cur
          /\ OnlyMetaWritten]_vars

\* C23 witness: a step failed for the first of two downloaded packages, the
\* meta-packages were inserted and the rollback has run, and the second
\* package was never extracted, copied or inserted
C23_Witness ==
    /\ pc = "done" /\ ~status.ok
    /\ Len(downl_files) = 2 /\ cur = 1
    /\ downl_files[2] \notin extracted \cup Range(installed_pkgs)
    /\ ~(ShippedPaths(downl_files[2]) \subseteq copied)
    /\ \E n \in MetaPkgs : n \notin Keys(start.db.pkgdata) /\ n \in Keys(db.pkgdata)

\* local_db holds the record of every meta-package of the target graph
MetaPresent ==
    \A n \in MetaPkgs : n \in Keys(db.pkgdata) /\ db.pkgdata[n] = graph[n]

\* C24 as claimed: whenever install_handler returns, with success or with the
\* failure of any step, every meta-package of the target graph is in local_db
C24_MetaAlwaysInsertedClaimed == pc = "done" => MetaPresent

\* C24 amended: whenever install_handler returns after the downloads, with
\* success or with the failure of any later step, every meta-package of the
\* target graph is in local_db; when a download fails it returns at once and
\* local_db is as it was
C24_MetaInsertedUnlessDownloadFailed ==
    pc = "done" =>
        IF args.fail.step = "download" /\ ~result.ok
        THEN db = start.db /\ result = Err(IoError("download"))
        ELSE MetaPresent

\* C24 witness: the copy of a package failed, install_handler has returned
\* the error, and local_db holds a meta-package it did not hold before
C24_Witness ==
    /\ pc = "done" /\ ~result.ok
    /\ args.fail.step = "copy"
    /\ MetaPresent
    /\ \E n \in MetaPkgs : n \notin Keys(start.db.pkgdata)

(***************************************************************************)
(* Properties of the work list of get_subgraph.                            *)
(***************************************************************************)
\* no name occurs twice in the sequence
NoRepeats(s) == \A i \in 1..Len(s), j \in 1..Len(s) : s[i] = s[j] => i = j

\* the closure computation is running on a selection without repeated names
ClosureRunning ==
    /\ pc \in {"while", "done"}
    /\ args.follow_deps
    /\ NoRepeats(args.select.names)

\* the packages that depend on themselves
SelfDependent ==
    {n \in Keys(db.pkgdata) :
        \E i \in 1..Len(db.pkgdata[n].depends) : db.pkgdata[n].depends[i].name = n}

\* C25 as claimed: a name is added to pending at most once over the run and
\* popped at most once: pending never holds a name twice, and never holds a
\* name that was popped and resolved before
C25_PendingOnceClaimed ==
    ClosureRunning =>
        /\ NoRepeats(pending)
        /\ Range(pending) \cap Keys(resolved) = {}

\* what the code does in the case of C25: pending never holds a name twice,
\* and the only names pushed again after they were popped are the packages
\* that depend on themselves (the popped name is neither pending nor
\* resolved while its own dependencies are pushed)
C25_OnlySelfDependentPushedAgain ==
    ClosureRunning =>
        /\ NoRepeats(pending)
        /\ Range(pending) \cap Keys(resolved) \subseteq SelfDependent

\* every name reachable from the selection, the selected names included, is
\* in the PkgDb
AllReachablePresent == ReachableFrom(db.pkgdata, Selected) \subseteq Keys(db.pkgdata)

\* the i-th edge of record n leads to a record whose version does not match
BrokenEdge(n, i) ==
    LET d == db.pkgdata[n].depends[i]
    IN  d.name \in Keys(db.pkgdata) /\ ~Matches(d.req, db.pkgdata[d.name].version)

\* the result is the BrokenDependency error of the i-th edge of record n
ReportsEdge(n, i) ==
    LET d == db.pkgdata[n].depends[i]
    IN  result = Err(BrokenDependency(d.name, d.req, db.pkgdata[d.name].version, n))

\* C26: when every reachable name is present and some reachable edge is not
\* matched by the version of its dependency, get_subgraph(select, true) fails
\* with BrokenDependency whose four fields come from one violated edge
C26_BrokenDependencyReported ==
    (pc = "done" /\ args.follow_deps /\ AllReachablePresent
        /\ \E n \in ReachableFrom(db.pkgdata, Selected) :
           \E i \in 1..Len(db.pkgdata[n].depends) : BrokenEdge(n, i))
    => \E n \in ReachableFrom(db.pkgdata, Selected) :
       \E i \in 1..Len(db.pkgdata[n].depends) : BrokenEdge(n, i) /\ ReportsEdge(n, i)

\* C26 witness: the violated edge lies behind a satisfied one, from a
\* dependency of the selected package to a record of another version
C26_Witness ==
    /\ pc = "done" /\ args.follow_deps /\ AllReachablePresent
    /\ args.select = Some(<<"A">>)
    /\ ~result.ok /\ result.err.kind = "BrokenDependency"
    /\ result.err.pkg = "B" /\ result.err.dep = "C"
    /\ db.pkgdata["B"].version # db.pkgdata["C"].version

\* selections that name the same set of packages as the one of the call:
\* the names in every order, and every order with its first name repeated
SameNameSelections ==
    LET orders == Perms(Range(args.select.names))
    IN  orders \cup {s \o <<s[1]>> : s \in {t \in orders : t # <<>>}}

\* C27: the call get_subgraph(select, true) that has returned and the same
\* call on any selection with the same set of names both fail, or both
\* return the same names mapped to the same records
C27_SelectionOrderIrrelevant ==
    (pc = "done" /\ args.follow_deps /\ args.select.some) =>
        \A s \in SameNameSelections :
        \A r \in get_subgraph(db.pkgdata, Some(s), TRUE) :
            /\ r.ok = result.ok
            /\ r.ok => r.val = result.val

\* C27 witness: a subgraph returned for two selected names, one of them a
\* dependency of the other, that also holds a third record
C27_Witness ==
    /\ ResolvedOk
    /\ args.select = Some(<<"A", "B">>)
    /\ "A" \in DirectDeps(db.pkgdata, {"B"})
    /\ Keys(result.val) = {"A", "B", "C"}

\* C27 witness of the repetition: a name selected twice, and the call failed
C27_WitnessRepeated ==
    /\ pc = "done" /\ args.follow_deps /\ ~result.ok
    /\ args.select = Some(<<"A", "A">>)
    /\ "A" \in Keys(db.pkgdata)

(***************************************************************************)
(* Properties of the removal loop of remove_handler.                       *)
(***************************************************************************)
\* the regular files a targeted package lists
ListedFiles(n) ==
    IF graph[n].set_info.kind = "local"
    THEN {p \in Range(graph[n].set_info.paths) : p.name \notin DirNames}
    ELSE {}

\* the listed files of a targeted package that cannot be removed
LockedFiles(n) == ListedFiles(n) \cap faults.locked \cap start.fs

\* the targeted packages whose removal fails
FailedPkgs == {n \in Keys(graph) : LockedFiles(n) # {}}

\* C28: when remove_handler returns from the removal loop, the removal of
\* every file of every targeted package has been attempted (only files that
\* cannot be removed are left), the result is Ok when no removal failed and
\* otherwise one CannotRemovePkgs holding exactly the failed packages, each
\* once and with the CannotRemove error of its own paths, and every failed
\* package is still in local_db
C28_AllAttemptedErrorsCollected ==
    [][RhReturn =>
          /\ \A n \in Keys(graph) : ListedFiles(n) \cap fs = LockedFiles(n)
          /\ IF FailedPkgs = {} THEN result' = Ok("unit")
             ELSE /\ ~result'.ok
                  /\ result'.err.kind = "CannotRemovePkgs"
                  /\ Len(result'.err.pkgs) = Cardinality(FailedPkgs)
                  /\ {result'.err.pkgs[i][1] : i \in 1..Len(result'.err.pkgs)}
                        = FailedPkgs
                  /\ \A i \in 1..Len(result'.err.pkgs) :
                        LET e == result'.err.pkgs[i]
                        IN  /\ e[2].kind = "CannotRemove"
                            /\ Range(e[2].paths) = LockedFiles(e[1])
          /\ FailedPkgs \subseteq Keys(db'.pkgdata)]_vars

\* C28 witness: the removal of A failed, the file of B, targeted in the same
\* call, was removed all the same, and CannotRemovePkgs names A alone
C28_Witness ==
    /\ pc = "done" /\ ~result.ok /\ result.err.kind = "CannotRemovePkgs"
    /\ {"A", "B"} \subseteq Keys(graph)
    /\ FailedPkgs = {"A"}
    /\ Len(result.err.pkgs) = 1
    /\ Path("/", "usr/b") \in start.fs \ fs
    /\ "A" \in Keys(db.pkgdata)

\* C28 witness of the order: the removal of one package has failed and the
\* files of another one are still to be removed
C28_WitnessEarlierFailed ==
    /\ pc = "remove" /\ errors # <<>>
    /\ \E n \in todo : ListedFiles(n) \cap fs # {}

\* C28 witness of the aggregation: two packages failed and both are reported
C28_WitnessTwoFailed ==
    /\ pc = "done" /\ ~result.ok /\ result.err.kind = "CannotRemovePkgs"
    /\ Len(result.err.pkgs) = 2

\* the directories a targeted package lists
ListedDirs(n) ==
    IF graph[n].set_info.kind = "local"
    THEN {p \in Range(graph[n].set_info.paths) : p.name \in DirNames}
    ELSE {}

\* the paths reported in the errors collected for package n
ReportedPaths(errs, n) ==
    UNION {Range(errs[i][2].paths) : i \in {j \in 1..Len(errs) : errs[j][1] = n}}

\* C29: in the turn of the removal loop that handles package n, a listed
\* directory is deleted only if nothing is left in it once the files of n
\* are gone, and a listed directory that still holds entries stays in place
\* and is not reported in the error of n; no existing path is ever left
\* without its directory
C29_DirRemovedOnlyWhenEmpty ==
    [][RhRemovePkg =>
          /\ \A n \in todo \ todo' : \A d \in ListedDirs(n) \cap fs :
                /\ d \notin fs' => EntryCount(fs', d) = 0
                /\ EntryCount(fs', d) # 0 =>
                      d \in fs' /\ d \notin ReportedPaths(errors', n)
          /\ \A q \in fs' : ParentName(q.name) # "" =>
                Path(q.base, ParentName(q.name)) \in fs']_vars

\* C29 witness: B was removed alone while A stays installed; the directory
\* both list still holds the file of A, it was left in place and the call
\* returned Ok
C29_Witness ==
    /\ pc = "done" /\ result = Ok("unit")
    /\ Keys(graph) = {"B"}
    /\ Path("/", "usr/b") \in start.fs \ fs
    /\ Path("/", "usr") \in ListedDirs("B") \cap fs
    /\ Path("/", "usr/a") \in fs
    /\ faults = NoFaults

\* C29 witness of the deletion: the directory of a package removed alone,
\* empty after the removal of its file, is gone
C29_WitnessDeleted ==
    /\ pc = "done" /\ result = Ok("unit")
    /\ Keys(graph) = {"A"}
    /\ start.fs = {Path("/", "usr/a"), Path("/", "usr")}
    /\ fs = {}

\* every regular file of every targeted package has been deleted
BatchFilesDeleted ==
    /\ pc = "done" /\ result = Ok("unit")
    /\ \E n \in Keys(graph) : ListedFiles(n) # {}
    /\ \A n \in Keys(graph) : ListedFiles(n) \cap fs = {}

\* the files the directory d held at the call
EntriesAtStart(d) ==
    {q \in start.fs : q.base = d.base /\ ParentName(q.name) = d.name}

\* the regular files of the whole batch
BatchFiles == UNION {ListedFiles(n) : n \in Keys(graph)}

\* C30 as claimed: the directories are attempted after the files of the
\* whole batch, so when the removal has deleted the files of every targeted
\* package, a directory that a targeted package lists and that held only
\* files of targeted packages has been removed
C30_BatchDirRemovedClaimed ==
    BatchFilesDeleted =>
        \A n \in Keys(graph) : \A d \in ListedDirs(n) :
            EntriesAtStart(d) \subseteq BatchFiles => d \notin fs

\* C30 as claimed, the order: in no turn of the removal loop is a directory
\* attempted while a file of a targeted package is still to be deleted
C30_DirsAfterBatchFilesClaimed ==
    [][RhRemovePkg =>
          \A n \in todo \ todo' :
              ListedDirs(n) \cap fs # {} => BatchFiles \cap fs' = {}]_vars

\* what the code does in the case of C30: the directories of a package are
\* attempted at the end of the turn of that package; a directory is removed
\* when every targeted package with a file in it lists it too, and is left
\* behind, empty, when the package that lists it is handled before another
\* one whose file it holds
C30_DirsDeferredPerPackage ==
    BatchFilesDeleted =>
        \A n \in Keys(graph) : \A d \in ListedDirs(n) :
            (/\ EntriesAtStart(d) \subseteq BatchFiles
             /\ \A m \in Keys(graph) :
                   ListedFiles(m) \cap EntriesAtStart(d) # {} => d \in ListedDirs(m))
            => d \notin fs

(***************************************************************************)
(* The conflict check of remove_handler as a guard of the deletion.        *)
(***************************************************************************)
\* C31 as claimed: whatever the arguments, a file of a targeted package is
\* deleted only after the conflict check over the removal target has run and
\* passed in the same call
C31_NoDeletionWithoutCheckClaimed ==
    fs # start.fs => args.check_conflicts /\ TargetConflicts = {}

\* what the code does in the case of C31: the check runs only when the
\* argument check_conflicts is true; files of a target that breaks a retained
\* package are deleted exactly in calls with check_conflicts false
C31_CheckOnlyWhenRequested ==
    /\ (fs # start.fs /\ TargetConflicts # {}) => ~args.check_conflicts
    /\ (fs # start.fs /\ args.check_conflicts) => TargetConflicts = {}

(***************************************************************************)
(* Properties of PkgDb::remove.                                            *)
(***************************************************************************)
\* C32: a call of PkgDb::remove fails with PkgNotFound when the name is not
\* in the PkgDb and, with check_conflicts, with RemoveBreaksPkg(name,
\* dependent) when another record has a satisfied edge to the package; a
\* failing call leaves the PkgDb as it was, a successful one takes out the
\* record of name and nothing else, and the call succeeds in every other case
C32_RemoveChecksThenRemoves ==
    [][PrRemove =>
          LET name == args'.name
              cs   == Conflicts(db.pkgdata, {name})
          IN  /\ name \notin Keys(db.pkgdata) => result' = Err(PkgNotFound(name))
              /\ (name \in Keys(db.pkgdata) /\ args'.check_conflicts /\ cs # {}) =>
                    BreaksOneOf(result', cs)
              /\ ~result'.ok => db' = db
              /\ result'.ok =>
                    /\ name \in Keys(db.pkgdata)
                    /\ db' = [db EXCEPT !.pkgdata = MapRemove(db.pkgdata, name)]
              /\ (name \in Keys(db.pkgdata) /\ (~args'.check_conflicts \/ cs = {})) =>
                    result'.ok]_vars

\* C32 witness: a checked removal was refused because of a dependent, and
\* the PkgDb still holds every record it held
C32_Witness ==
    /\ args.op = "remove" /\ args.check_conflicts
    /\ ~result.ok /\ result.err.kind = "RemoveBreaksPkg"
    /\ result.err.dep = args.name
    /\ db = start.db

\* C32 witness of the success: a checked removal took a record out of a
\* PkgDb that keeps a record with a dependency
C32_WitnessRemoved ==
    /\ args.op = "remove" /\ args.check_conflicts /\ result.ok
    /\ args.name \in Keys(start.db.pkgdata) \ Keys(db.pkgdata)
    /\ \E n \in Keys(db.pkgdata) : db.pkgdata[n].depends # <<>>

\* C32 witness of the unknown name
C32_WitnessNotFound ==
    /\ args.op = "remove" /\ result = Err(PkgNotFound(args.name))
    /\ db.pkgdata # EmptyMap

(***************************************************************************)
(* Properties of the paths install_handler records.                        *)
(***************************************************************************)
\* the paths nbinfo.toml of the archive of n lists
MetadataPaths(n) == Archive(n, args.kinds[n], graph[n]).info[n].set_info.paths

\* the records this run has inserted for the packages it installs
InsertedByRun ==
    {n \in Range(installed_pkgs) :
        n \in Keys(db.pkgdata) /\ db.pkgdata[n].set_info.kind = "local"}

\* C33 as claimed: every path recorded for a package installed by this run
\* is the installation root followed by the path of the metadata, relative
\* or absolute, and so lies under the root
C33_RecordedUnderRootClaimed ==
    \A n \in InsertedByRun :
        LET rec == db.pkgdata[n].set_info.paths
        IN  /\ Len(rec) = Len(MetadataPaths(n))
            /\ \A k \in 1..Len(rec) :
                  rec[k] = Path(args.root, MetadataPaths(n)[k].name)

\* what the code does in the case of C33: a relative path of the metadata is
\* recorded under the root, an absolute one is recorded as it is, outside
\* the root
C33_AbsolutePathsKept ==
    \A n \in InsertedByRun :
        LET rec == db.pkgdata[n].set_info.paths
        IN  /\ Len(rec) = Len(MetadataPaths(n))
            /\ \A k \in 1..Len(rec) :
                  rec[k] = IF MetadataPaths(n)[k].abs
                           THEN Path("/", MetadataPaths(n)[k].name)
                           ELSE Path(args.root, MetadataPaths(n)[k].name)

(***************************************************************************)
(* Properties of the scratch directory of install_handler.                 *)
(***************************************************************************)
\* the archive of the package the loop is handling
CurrentArchive ==
    Archive(downl_files[cur], args.kinds[downl_files[cur]], graph[downl_files[cur]])

\* C34: when an archive is about to be extracted NBPM_WORK_CURR holds nothing
\* of a package handled before, and while a package is read, inserted,
\* copied and cleaned the directory holds the files and the nbinfo.toml of
\* its archive and nothing else
C34_ScratchHoldsCurrentOnly ==
    /\ pc = "extract" => work_curr = EmptyWorkDir
    /\ pc \in {"insert", "copy", "clean"} =>
          /\ work_curr.files = CurrentArchive.files
          /\ work_curr.info = CurrentArchive.info

\* C34 witness: the second package of the run is about to be copied, the
\* files of the first are under the root and not in NBPM_WORK_CURR
C34_Witness ==
    /\ pc = "copy" /\ cur = 2
    /\ ShippedPaths(downl_files[1]) \subseteq copied
    /\ FileOf(downl_files[1]) \notin work_curr.files
    /\ FileOf(downl_files[2]) \in work_curr.files

(***************************************************************************)
(* Properties of the install command of the nbpm binary.                   *)
(***************************************************************************)
\* main has ended after a failure of the install loop
MainFailed == pc = "exit" /\ (~status.ok \/ result = Err(IoError("tar")))

\* the files the records of installed_pkgs list, under the root
InstalledListed ==
    UNION {{Join(args.root, q) :
               q \in {p \in Range(installed_pkgs[n].set_info.paths) :
                         p.name \notin DirNames}} :
           n \in Keys(installed_pkgs)}

\* C35: when the install loop of main failed, on a filesystem that refuses no
\* removal, local_db is as it was loaded, nothing has been written to
\* LOCAL_DB_PATH, and the listed files of the packages installed so far are
\* gone from the root
C35_FailureUndoneClaimed ==
    (MainFailed /\ faults = NoFaults) =>
        /\ db = start.db
        /\ text = NoText
        /\ InstalledListed \cap fs = {}

\* C35, what holds: local_db is updated and written only when every package
\* was installed, and the files of the packages installed so far are removed
\* unless the failure was that of tar, which ends the process at once
C35_UndoneUnlessTarFailed ==
    /\ (db # start.db \/ text # NoText) =>
          /\ pc = "exit" /\ status.ok /\ result = Ok("unit")
          /\ text = PkgDb_serialize(TextNames(db))
          /\ extracted = Range(downl_files)
    /\ (MainFailed /\ faults = NoFaults /\ status.ok) =>
          /\ args.fail.step = "extract"
          /\ fs = start.fs \cup UNION {Installed(args.root,
                     Archive(n, args.kinds[n], graph[n]).files) : n \in extracted}
    /\ (MainFailed /\ faults = NoFaults /\ ~status.ok) =>
          /\ db = start.db /\ text = NoText
          /\ InstalledListed \cap fs = {}

\* a tar failure on the second archive leaves the files of the first
C35_WitnessTarFailed ==
    /\ MainFailed /\ faults = NoFaults /\ status.ok
    /\ Keys(installed_pkgs) # {}
    /\ InstalledListed \subseteq fs

(***************************************************************************)
(* Dependency integrity of a Local PkgDb across removals.                  *)
(***************************************************************************)
\* dependency integrity: every edge of every record leads to a record of the
\* PkgDb whose version satisfies the requirement
Integrity(pkgdata) ==
    \A n \in Keys(pkgdata) : \A d \in Range(pkgdata[n].depends) :
        ~EdgeViolated(pkgdata, n, d)

\* the records left when the records of S are taken out
Without(pkgdata, S) == [n \in Keys(pkgdata) \ S |-> pkgdata[n]]

\* the target sets check_remove accepts
AcceptedTargets(pkgdata) ==
    {names \in SeqsUpTo(Names, MaxSel) :
        Ok("unit") \in check_remove(pkgdata, names)}

\* C36: from a PkgDb that satisfies dependency integrity, a successful
\* PkgDb::remove(name, true) leaves a PkgDb that satisfies it, and so do the
\* records that remain when a target set accepted by check_remove is taken out
C36_CheckedRemovalKeepsIntegrity ==
    [][Integrity(db.pkgdata) =>
          /\ (PrRemove /\ args'.check_conflicts /\ result'.ok) =>
                 Integrity(db'.pkgdata)
          /\ \A names \in AcceptedTargets(db.pkgdata) :
                 Integrity(Without(db.pkgdata, Range(names)))]_vars

\* C36 witness: a checked removal of B has succeeded and has left a PkgDb in
\* which A depends on C and every edge is satisfied
C36_Witness ==
    /\ pc = "pkgdb" /\ args.op = "remove" /\ args.check_conflicts /\ result.ok
    /\ args.name = "B" /\ "B" \notin Keys(db.pkgdata)
    /\ "A" \in Keys(db.pkgdata) /\ DirectDeps(db.pkgdata, {"A"}) = {"C"}
    /\ Integrity(db.pkgdata)

\* C36 witness of a target set: a PkgDb that satisfies integrity, in which A
\* depends on B, and check_remove accepts A and B together but not B alone
C36_WitnessSet ==
    /\ pc = "pkgdb" /\ Integrity(db.pkgdata)
    /\ "A" \in Keys(db.pkgdata) /\ "B" \in DirectDeps(db.pkgdata, {"A"})
    /\ <<"B", "A">> \in AcceptedTargets(db.pkgdata)
    /\ <<"B">> \notin AcceptedTargets(db.pkgdata)

(***************************************************************************)
(* Dependency integrity of the Local PkgDb across an installation.         *)
(***************************************************************************)
\* install_handler has returned Ok
InstallOk == pc = "done" /\ result.ok

\* some record installed before the run depends on a package of the graph
OldDependent ==
    \E n \in Keys(start.db.pkgdata) \ Keys(graph) :
        \E d \in Range(start.db.pkgdata[n].depends) : d.name \in Keys(graph)

\* C37 as claimed: when install_handler succeeds on a Local PkgDb that
\* satisfied dependency integrity and on a purged closure of the index, the
\* Local PkgDb satisfies dependency integrity, the edges of the records
\* installed before the run included
C37_IntegrityAfterInstallClaimed ==
    (InstallOk /\ Integrity(start.db.pkgdata)) => Integrity(db.pkgdata)

\* C37, what holds: every edge of the records of the graph is satisfied by
\* the Local PkgDb after a successful install, and an edge that is not
\* belongs to a record installed before the run and leads to a package the
\* run has updated
C37_NewRecordsSatisfied ==
    InstallOk =>
        \A n \in Keys(db.pkgdata) : \A d \in Range(db.pkgdata[n].depends) :
            EdgeViolated(db.pkgdata, n, d) =>
                /\ n \notin Keys(graph)
                /\ db.pkgdata[n] = start.db.pkgdata[n]
                /\ d.name \in Keys(graph) \cap Keys(start.db.pkgdata)
                /\ VLess(start.db.pkgdata[d.name].version, db.pkgdata[d.name].version)

\* an install has succeeded with a dependent installed before the run, and
\* every edge is still satisfied
C37_WitnessKept ==
    InstallOk /\ OldDependent /\ Integrity(db.pkgdata)

(***************************************************************************)
(* A failed download in install_handler.                                   *)
(***************************************************************************)
\* the download that fails in this run is that of an archive of the graph
DownloadFails ==
    /\ args.fail.step = "download"
    /\ args.fail.pkg \in Keys(graph) /\ ~is_meta(graph[args.fail.pkg])

\* C38: when the download of an archive fails install_handler does nothing
\* past the download loop and returns that error, with local_db and the
\* installation root as they were at the call, no record inserted, no
\* archive extracted, no file copied
C38_DownloadFailureTouchesNothing ==
    /\ (DownloadFails /\ pc # "download") =>
          pc = "done" /\ result = Err(IoError("download"))
    /\ (pc = "done" /\ result = Err(IoError("download"))) =>
          /\ db = start.db
          /\ fs = start.fs
          /\ extracted = {} /\ copied = {} /\ installed_pkgs = <<>>
          /\ work_curr = EmptyWorkDir

\* C38 witness: the second download failed after the first archive was
\* fetched, with a meta-package in the graph and a package installed before
C38_Witness ==
    /\ pc = "done" /\ result = Err(IoError("download"))
    /\ fetched # {}
    /\ "C" \in Keys(graph) /\ "C" \notin Keys(db.pkgdata)
    /\ Keys(start.db.pkgdata) # {}

(***************************************************************************)
(* The confirmation prompt of remove_handler.                              *)
(***************************************************************************)
\* the step of remove_handler in which the user declines the prompt
Declines == RhAsk /\ pc' = "done" /\ result' = Ok("unit")

\* C39: while the prompt waits for its answer no file has been deleted and
\* the user can decline; the step that declines ends the call with Ok(()),
\* without going through the conflict check and the removal loop, and leaves
\* local_db and the filesystem as they were at the call
C39_DeclineCancelsEverything ==
    /\ [](pc = "ask" => /\ fs = start.fs /\ db = start.db /\ errors = <<>>
                        /\ ENABLED Declines)
    /\ [][(pc = "ask" /\ pc' # "check" /\ result' # Err(IoError("read_line"))) =>
             /\ pc' = "done" /\ result' = Ok("unit")
             /\ fs' = start.fs /\ db' = start.db
             /\ errors' = <<>> /\ todo' = {}]_vars

\* C39 witness: the user declined the removal of A, whose file is still there
\* and would have been deleted
C39_Witness ==
    /\ pc = "done" /\ args.ask_user /\ result = Ok("unit")
    /\ "A" \in Keys(graph)
    /\ Path("/", "usr/a") \in fs
    /\ fs = start.fs /\ db = start.db

====
